---- MODULE Spec2Model ----
(***************************************************************************)
(* Session Channel (useWebSocket hook) and Permission Broker               *)
(* (usePermissionStore) of the AI Admin UI frontend.                       *)
(*                                                                         *)
(* One hook instance is modelled: its refs (wsRef, reconnectAttempts), the *)
(* browser timers it has scheduled, the WebSocket objects it has created   *)
(* and whose events are still to be delivered, the transcript, and the     *)
(* zustand stores it writes to.  Every browser task (a timer callback, a   *)
(* WebSocket event handler, a user action) is one atomic action.           *)
(***************************************************************************)
EXTENDS Integers, Sequences, FiniteSets, TLC

(* ------------------------------ bounds -------------------------------- *)
MaxSessionChanges == 1   \* how often the sessionId prop changes
MaxSockets == 4          \* WebSocket objects with events still outstanding
MaxMessages == 2         \* transcript entries
MaxOutbound == 2         \* ws.send calls recorded
MaxArrivals == 2         \* permission_request events over a run
MaxApiCalls == 1         \* direct calls of the grant-clearing store actions
MaxToolUses == 2         \* tool_use running events over a run
MaxReloads == 1          \* page reloads
MaxPieces == 5           \* pieces typed into the input box
MaxNow == 2              \* milliseconds the clock advances over a run

(* -------------------------- program constants ------------------------- *)
MaxReconnectAttempts == 5
BaseDelay == 1000
MaxDelay == 30000
MountDelay == 50

(* ------------------------------ domains ------------------------------- *)
Sessions == {"s1", "s2"}
NoSocket == 0
SockIds == 1..MaxSockets
Null == "null"
NoPath == ""
Paths == {"/src/Hero.tsx"}
ToolTypes == {"read", "write", "bash", "browser", "mcp"}
WireToolNames == {"write", "Bash"}
Scopes == {"once", "session", "always"}
\* the JavaScript values true and false of the permission API, written so that
\* they can be compared with null
Allowed == {"true", "false"}
RequestIds == {"p1", "p2"}
Modes == {"normal", "plan"}
Contents == {<<"h", "i">>, <<" ", "h", "i", " ">>, <<" ">>}
CommandNames == {"status"}
\* the keys the user presses while the slash menu is looked at
MenuPieces == {<<"/">>, <<"c">>, <<"o">>, <<"C">>, <<"?">>, <<" ">>}
\* complete texts of the input box: commands of both handler classes, texts
\* that begin with "/" and name no command, a chat text and a blank
RouterInputs ==
    {<<"/", "h", "e", "l", "p">>,
     <<"/", "S", "t", "a", "t", "u", "s", " ", "a", "r", "g", "1">>,
     <<"/", "n", "o", "n", "e", "x", "i", "s", "t", "e", "n", "t">>,
     <<" ", "/", "n", "o", "n", "e", "x", "i", "s", "t", "e", "n", "t", " ">>,
     <<"/", " ", "h", "e", "l", "p">>,
     <<"/", "p", "l", "a", "n">>,
     <<"/", "c", "l", "e", "a", "r">>,
     <<"/", "s", "e", "t", "t", "i", "n", "g", "s">>,
     <<"h", "i">>,
     <<" ">>}
\* what the user types into the input box, one piece at a time
InputPieces == {<<"/">>, <<"S", "t", "a", "t", "u", "s">>, <<" ">>, <<"\t">>,
                <<"a", "r", "g", "1">>, <<"B">>}
ArgLists == {<<>>, <<"arg1">>}
WorkingDirs == {"/repo"}
ToolUseIds == {"t1", "t2"}
SessionRoute == "/session/[id]"
SettingsRoute == "/settings"
PlanContents == {"1. edit Hero.tsx"}
StepIds == {"step1", "step2", "step3"}
StepStatuses == {"pending", "in_progress", "completed", "skipped"}
\* the step lists the agent may propose
StepLists ==
    {<<>>,
     <<[id |-> "step1", description |-> "edit", status |-> "pending"]>>,
     <<[id |-> "step1", description |-> "edit", status |-> "pending"],
       [id |-> "step2", description |-> "build", status |-> "pending"]>>}

VARIABLES
    sessionId,          \* the sessionId prop of the hook
    mounted,            \* the component using the hook is mounted
    timers,             \* pending setTimeout callbacks, in scheduling order
    sockets,            \* WebSocket objects: id -> [sid, rs, closedBy, opened, err]
    wsRef,              \* wsRef.current (NoSocket for null)
    reconnectAttempts,  \* reconnectAttempts.current
    backoffLog,         \* delays of the reconnects scheduled since the last open (history)
    connectionStatus,   \* useSessionStore.connectionStatus
    messages,           \* transcript (useState messages)
    messageIds,         \* the ids of the transcript entries, entry by entry
    outbound,           \* log of ws.send calls: what went out, on which socket
    pendingRequests,    \* usePermissionStore.pendingRequests
    sessionPermissions, \* usePermissionStore.sessionPermissions
    persistentPermissions, \* usePermissionStore.persistentPermissions
    toolUses,           \* usePermissionStore.toolUses
    isTyping,           \* useState isTyping
    workingDir,         \* useState workingDir
    activeToolUses,     \* useState activeToolUses
    streamingContent,   \* streamingContentRef.current
    clock,              \* number of permission_request events received so far
    sessionChanges,     \* number of sessionId changes so far
    apiCalls,           \* number of direct grant-clearing calls so far
    reloads,            \* number of page reloads so far
    now,                \* Date.now(), in milliseconds since the run began
    mode,               \* useModeStore.mode
    planContent,        \* useModeStore.planContent
    planSteps,          \* useModeStore.planSteps
    planApproved,       \* useModeStore.planApproved
    inputValue,         \* SessionPage useState inputValue
    showSlashMenu,      \* SessionPage useState showSlashMenu
    route,              \* the route last pushed to the router by the page
    heartbeat,          \* the setInterval of the heartbeat effect is registered
    scenario,           \* the events handled since page load, while they follow Scenario (history)
    last                \* the task that ran last (history)

chanVars == <<sessionId, mounted, timers, sockets, wsRef, reconnectAttempts,
              backoffLog, connectionStatus, sessionChanges>>
logVars == <<messages, messageIds, outbound>>
uiVars == <<isTyping, workingDir, activeToolUses, streamingContent>>
permVars == <<pendingRequests, sessionPermissions, persistentPermissions, toolUses,
              clock, apiCalls>>
planVars == <<mode, planContent, planSteps, planApproved>>
pageVars == <<inputValue, showSlashMenu, route, heartbeat>>
vars == <<chanVars, logVars, uiVars, permVars, reloads, now, pageVars, planVars, scenario,
         last>>

(* ------------------------------ helpers ------------------------------- *)
Pow2(n) == IF n = 0 THEN 1 ELSE IF n = 1 THEN 2 ELSE IF n = 2 THEN 4
           ELSE IF n = 3 THEN 8 ELSE IF n = 4 THEN 16 ELSE 32

Min(a, b) == IF a < b THEN a ELSE b

\* the characters String.prototype.trim removes and \s matches
Whitespace == {" ", "\t", "\n"}

RECURSIVE TrimStart(_)
TrimStart(s) == IF s # <<>> /\ Head(s) \in Whitespace THEN TrimStart(Tail(s)) ELSE s

RECURSIVE TrimEnd(_)
TrimEnd(s) == IF s # <<>> /\ s[Len(s)] \in Whitespace
              THEN TrimEnd(SubSeq(s, 1, Len(s) - 1)) ELSE s

\* String.prototype.trim
Trim(s) == TrimEnd(TrimStart(s))

Live(s) == s \in DOMAIN sockets /\ sockets[s].rs \in {"CONNECTING", "OPEN"}

LiveSockets == {s \in DOMAIN sockets : Live(s)}

\* wsRef.current?.readyState === WebSocket.OPEN
WsRefOpen == wsRef # NoSocket /\ sockets[wsRef].rs = "OPEN"

\* an error event has been dispatched and the close event of the same task
\* has not run yet: no other task can run in between
MidTask == \E s \in DOMAIN sockets : sockets[s].err

FreeSock == CHOOSE n \in SockIds : n \notin DOMAIN sockets /\
                \A m \in SockIds : m \notin DOMAIN sockets => n <= m

Drop(f, k) == [x \in DOMAIN f \ {k} |-> f[x]]

Put(f, k, v) == [x \in DOMAIN f \cup {k} |-> IF x = k THEN v ELSE f[x]]

RemoveAt(q, i) == SubSeq(q, 1, i - 1) \o SubSeq(q, i + 1, Len(q))

\* the event sequence of the worked example of the protocol: the agent starts
\* an edit, asks for permission, the user allows it once, the edit completes
Scenario ==
    << <<"tool_use", "t1", "running">>,
       <<"permission_request", "p1", "write", "/src/Hero.tsx">>,
       <<"permission_response", "p1", "true", "once">>,
       <<"tool_use", "t1", "completed">> >>

ScenarioOff == << <<"off">> >>

\* the history of handled events after one more event: the events so far while
\* they are the beginning of Scenario, ScenarioOff from the first that is not
Follow(ev) ==
    IF scenario # ScenarioOff /\ Len(scenario) < Len(Scenario)
           /\ Scenario[Len(scenario) + 1] = ev
    THEN Append(scenario, ev)
    ELSE ScenarioOff

\* what an inbound payload contributes to the history of handled events
EventOf(data) ==
    CASE data.type = "tool_use" -> <<"tool_use", data.tool_id, data.status>>
      [] data.type = "permission_request" ->
             <<"permission_request", data.request_id, data.tool, data.path>>
      [] OTHER -> <<data.type>>

(* --------------------------- Session Channel -------------------------- *)

\* WebSocket.close() on the object wsRef.current refers to, followed by
\* wsRef.current = null.  close() on a CLOSED object does nothing; on a
\* CONNECTING or OPEN one it sets readyState to CLOSING and the close event
\* is delivered later.
CloseCurrent(by) ==
    IF wsRef = NoSocket THEN sockets
    ELSE IF sockets[wsRef].rs = "CLOSED" THEN Drop(sockets, wsRef)
    ELSE [sockets EXCEPT ![wsRef].rs = "CLOSING", ![wsRef].closedBy = by]

\* connect() as it would be with the existing connection left alone
ConnectNoCloseFirst(sid) ==
    /\ sockets' = Put(IF wsRef # NoSocket /\ sockets[wsRef].rs = "CLOSED"
                      THEN Drop(sockets, wsRef) ELSE sockets,
                      FreeSock,
                      [sid |-> sid, rs |-> "CONNECTING", closedBy |-> "none",
                       opened |-> FALSE, err |-> FALSE])
    /\ wsRef' = FreeSock

\* connect(), with sid the sessionId its closure captured
Connect(sid) ==
    /\ sockets' = Put(CloseCurrent("connect"), FreeSock,
                      [sid |-> sid, rs |-> "CONNECTING", closedBy |-> "none",
                       opened |-> FALSE, err |-> FALSE])
    /\ wsRef' = FreeSock

\* disconnect()
Disconnect ==
    /\ sockets' = CloseCurrent("disconnect")
    /\ wsRef' = NoSocket

\* A timer may fire only if no timer scheduled before it has a delay that
\* is not longer (that one is due first).
Due(i) == \A j \in 1..(i - 1) : timers[j].delay > timers[i].delay

\* setTimeout callback: () => connect() of the mount effect, or connect
\* itself as scheduled by ws.onclose
TimerFire(i) ==
    /\ ~MidTask
    /\ i \in 1..Len(timers)
    /\ Due(i)
    /\ Cardinality(DOMAIN sockets) < MaxSockets
    /\ timers' = RemoveAt(timers, i)
    /\ Connect(timers[i].sid)
    /\ last' = [op |-> "connect", a |-> <<timers[i].kind, timers[i].sid>>]
    /\ UNCHANGED <<sessionId, mounted, reconnectAttempts, backoffLog, connectionStatus,
                   sessionChanges, logVars, uiVars, permVars, reloads, now,
                   pageVars, planVars, scenario>>

\* ws.onopen as it would be without the reset of the attempt counter
WsOpenNoReset(s) ==
    /\ ~MidTask
    /\ s \in DOMAIN sockets
    /\ sockets[s].rs = "CONNECTING"
    /\ sockets' = [sockets EXCEPT ![s].rs = "OPEN", ![s].opened = TRUE]
    /\ connectionStatus' = "connected"
    /\ last' = [op |-> "onopen", a |-> <<s, reconnectAttempts>>]
    /\ UNCHANGED <<sessionId, mounted, timers, wsRef, reconnectAttempts, backoffLog,
                   sessionChanges, logVars, uiVars, permVars, reloads, now,
                   pageVars, planVars, scenario>>

\* ws.onopen
WsOpen(s) ==
    /\ ~MidTask
    /\ s \in DOMAIN sockets
    /\ sockets[s].rs = "CONNECTING"
    /\ sockets' = [sockets EXCEPT ![s].rs = "OPEN", ![s].opened = TRUE]
    /\ connectionStatus' = "connected"
    /\ reconnectAttempts' = 0
    /\ backoffLog' = <<>>
    /\ last' = [op |-> "onopen", a |-> <<s, reconnectAttempts>>]
    /\ UNCHANGED <<sessionId, mounted, timers, wsRef, sessionChanges, logVars,
                   uiVars, permVars, reloads, now, pageVars, planVars, scenario>>

\* ws.onerror: the transport failed; the close event follows in the same task
WsError(s) ==
    /\ ~MidTask
    /\ s \in DOMAIN sockets
    /\ sockets[s].rs \in {"CONNECTING", "OPEN", "CLOSING"}
    /\ sockets' = [sockets EXCEPT ![s].err = TRUE]
    /\ connectionStatus' = "error"
    /\ last' = [op |-> "onerror", a |-> <<s>>]
    /\ UNCHANGED <<sessionId, mounted, timers, wsRef, reconnectAttempts, backoffLog,
                   sessionChanges, logVars, uiVars, permVars, reloads, now,
                   pageVars, planVars, scenario>>

\* the delay ws.onclose computes
ReconnectDelay(n) == Min(BaseDelay * Pow2(n), MaxDelay)

\* the reconnect branch of ws.onclose without the attempt limit
ScheduleReconnectUnlimited(sid) ==
    /\ timers' = Append(timers, [kind |-> "backoff", sid |-> sid,
                                 delay |-> ReconnectDelay(reconnectAttempts)])
    /\ backoffLog' = Append(backoffLog, ReconnectDelay(reconnectAttempts))
    /\ reconnectAttempts' = Min(reconnectAttempts + 1, MaxReconnectAttempts)

\* the reconnect branch of ws.onclose
ScheduleReconnect(sid) ==
    IF reconnectAttempts < MaxReconnectAttempts
    THEN /\ timers' = Append(timers, [kind |-> "backoff", sid |-> sid,
                                      delay |-> ReconnectDelay(reconnectAttempts)])
         /\ backoffLog' = Append(backoffLog, ReconnectDelay(reconnectAttempts))
         /\ reconnectAttempts' = reconnectAttempts + 1
    ELSE UNCHANGED <<timers, reconnectAttempts, backoffLog>>

\* ws.onclose.  A connection that never opened, or the close of a failed
\* connection, is preceded by the error event.
WsClose(s) ==
    /\ s \in DOMAIN sockets
    /\ sockets[s].rs \in {"CONNECTING", "OPEN", "CLOSING"}
    /\ MidTask => sockets[s].err
    /\ ~sockets[s].opened => sockets[s].err
    /\ sockets' = IF s = wsRef
                  THEN [sockets EXCEPT ![s].rs = "CLOSED", ![s].err = FALSE]
                  ELSE Drop(sockets, s)
    /\ connectionStatus' = "disconnected"
    /\ ScheduleReconnect(sockets[s].sid)
    /\ last' = [op |-> "onclose",
                a |-> <<s, sockets[s].closedBy, reconnectAttempts, sockets[s].opened>>]
    /\ UNCHANGED <<sessionId, mounted, wsRef, sessionChanges, logVars, uiVars, permVars,
                   reloads, now, pageVars, planVars, scenario>>

\* cleanup of the mount effect: clearTimeout(timeoutId); disconnect()
EffectCleanup(ts) ==
    /\ ts = SelectSeq(timers, LAMBDA t : t.kind # "mount")
    /\ Disconnect

\* the sessionId prop changes: the mount effect is cleaned up and runs again
SetSessionId(id) ==
    /\ ~MidTask
    /\ mounted
    /\ id \in Sessions \ {sessionId}
    /\ sessionChanges < MaxSessionChanges
    /\ sessionChanges' = sessionChanges + 1
    /\ sessionId' = id
    /\ \E ts \in {SelectSeq(timers, LAMBDA t : t.kind # "mount")} :
          /\ EffectCleanup(ts)
          /\ timers' = Append(ts, [kind |-> "mount", sid |-> id, delay |-> MountDelay])
    /\ scenario' = ScenarioOff
    /\ last' = [op |-> "setSessionId", a |-> <<id>>]
    /\ UNCHANGED <<mounted, reconnectAttempts, backoffLog, connectionStatus, logVars,
                   uiVars, permVars, reloads, now, pageVars, planVars>>

\* the component unmounts (navigation away, session terminated)
Unmount ==
    /\ ~MidTask
    /\ mounted
    /\ mounted' = FALSE
    /\ \E ts \in {SelectSeq(timers, LAMBDA t : t.kind # "mount")} :
          /\ EffectCleanup(ts)
          /\ timers' = ts
    /\ heartbeat' = FALSE
    /\ last' = [op |-> "unmount", a |-> <<>>]
    /\ UNCHANGED <<sessionId, reconnectAttempts, backoffLog, connectionStatus,
                   sessionChanges, logVars, uiVars, permVars, reloads, now, inputValue,
                   showSlashMenu, route, planVars, scenario>>

(* ------------------------- Permission Broker -------------------------- *)

\* mapToolName
MapToolName(name) ==
    CASE name \in {"read", "Read"} -> "read"
      [] name \in {"write", "Write", "edit", "Edit"} -> "write"
      [] name \in {"bash", "Bash"} -> "bash"
      [] name \in {"browser", "Browser", "WebFetch", "WebSearch"} -> "browser"
      [] OTHER -> "mcp"

\* getPermissionKey: `${tool}:${path}`, or `${tool}:*` when path is missing or empty
GetPermissionKey(tool, path) == IF path # NoPath THEN <<tool, path>> ELSE <<tool, "*">>

\* checkPermission as it would be if the most specific key were looked up first
CheckPermissionMostSpecific(tool, path) ==
    LET specificKey == GetPermissionKey(tool, path)
        wildcardKey == GetPermissionKey(tool, NoPath)
    IN  IF specificKey \in DOMAIN persistentPermissions
        THEN persistentPermissions[specificKey]
        ELSE IF specificKey \in DOMAIN sessionPermissions
        THEN sessionPermissions[specificKey]
        ELSE IF wildcardKey \in DOMAIN persistentPermissions
        THEN persistentPermissions[wildcardKey]
        ELSE IF wildcardKey \in DOMAIN sessionPermissions
        THEN sessionPermissions[wildcardKey]
        ELSE Null

\* checkPermission as it would be if the session store were looked up first
CheckPermissionSessionFirst(tool, path) ==
    LET specificKey == GetPermissionKey(tool, path)
        wildcardKey == GetPermissionKey(tool, NoPath)
    IN  IF specificKey \in DOMAIN sessionPermissions
        THEN sessionPermissions[specificKey]
        ELSE IF wildcardKey \in DOMAIN sessionPermissions
        THEN sessionPermissions[wildcardKey]
        ELSE IF specificKey \in DOMAIN persistentPermissions
        THEN persistentPermissions[specificKey]
        ELSE IF wildcardKey \in DOMAIN persistentPermissions
        THEN persistentPermissions[wildcardKey]
        ELSE Null

\* checkPermission
CheckPermission(tool, path) ==
    LET specificKey == GetPermissionKey(tool, path)
        wildcardKey == GetPermissionKey(tool, NoPath)
    IN  IF specificKey \in DOMAIN persistentPermissions
        THEN persistentPermissions[specificKey]
        ELSE IF wildcardKey \in DOMAIN persistentPermissions
        THEN persistentPermissions[wildcardKey]
        ELSE IF specificKey \in DOMAIN sessionPermissions
        THEN sessionPermissions[specificKey]
        ELSE IF wildcardKey \in DOMAIN sessionPermissions
        THEN sessionPermissions[wildcardKey]
        ELSE Null

\* the same lookup in the state a step leads to
CheckPermissionNext(tool, path) ==
    LET specificKey == GetPermissionKey(tool, path)
        wildcardKey == GetPermissionKey(tool, NoPath)
    IN  IF specificKey \in DOMAIN persistentPermissions'
        THEN persistentPermissions'[specificKey]
        ELSE IF wildcardKey \in DOMAIN persistentPermissions'
        THEN persistentPermissions'[wildcardKey]
        ELSE IF specificKey \in DOMAIN sessionPermissions'
        THEN sessionPermissions'[specificKey]
        ELSE IF wildcardKey \in DOMAIN sessionPermissions'
        THEN sessionPermissions'[wildcardKey]
        ELSE Null

\* addRequest: the queue with the request appended, status pending.
\* arrival stands for timestamp: new Date() taken when the event is handled.
AddRequest(id, tool, path) ==
    Append(pendingRequests, [id |-> id, tool |-> tool, path |-> path,
                             arrival |-> clock + 1, status |-> "pending"])

HasRequest(id) == \E i \in 1..Len(pendingRequests) : pendingRequests[i].id = id

\* state.pendingRequests.find((r) => r.id === id)
FindRequest(id) ==
    pendingRequests[CHOOSE i \in 1..Len(pendingRequests) :
        /\ pendingRequests[i].id = id
        /\ \A j \in 1..(i - 1) : pendingRequests[j].id # id]

\* resolveRequest as it would be if a decision made once left the request queued
ResolveRequestKeepOnce(id, allowed, scope) ==
    IF ~HasRequest(id)
    THEN UNCHANGED <<pendingRequests, sessionPermissions, persistentPermissions>>
    ELSE LET key == GetPermissionKey(FindRequest(id).tool, FindRequest(id).path)
         IN  /\ pendingRequests' = IF scope = "once" THEN pendingRequests
                    ELSE SelectSeq(pendingRequests, LAMBDA r : r.id # id)
             /\ sessionPermissions' = IF scope = "session"
                    THEN Put(sessionPermissions, key, allowed) ELSE sessionPermissions
             /\ persistentPermissions' = IF scope = "always"
                    THEN Put(persistentPermissions, key, allowed)
                    ELSE persistentPermissions

\* resolveRequest as it would be if every decision were cached for the session
ResolveRequestCacheOnce(id, allowed, scope) ==
    IF ~HasRequest(id)
    THEN UNCHANGED <<pendingRequests, sessionPermissions, persistentPermissions>>
    ELSE LET key == GetPermissionKey(FindRequest(id).tool, FindRequest(id).path)
         IN  /\ pendingRequests' = SelectSeq(pendingRequests, LAMBDA r : r.id # id)
             /\ sessionPermissions' = IF scope \in {"session", "once"}
                    THEN Put(sessionPermissions, key, allowed) ELSE sessionPermissions
             /\ persistentPermissions' = IF scope = "always"
                    THEN Put(persistentPermissions, key, allowed)
                    ELSE persistentPermissions

\* resolveRequest
ResolveRequest(id, allowed, scope) ==
    IF ~HasRequest(id)
    THEN UNCHANGED <<pendingRequests, sessionPermissions, persistentPermissions>>
    ELSE LET key == GetPermissionKey(FindRequest(id).tool, FindRequest(id).path)
         IN  /\ pendingRequests' = SelectSeq(pendingRequests, LAMBDA r : r.id # id)
             /\ sessionPermissions' = IF scope = "session"
                    THEN Put(sessionPermissions, key, allowed) ELSE sessionPermissions
             /\ persistentPermissions' = IF scope = "always"
                    THEN Put(persistentPermissions, key, allowed)
                    ELSE persistentPermissions

\* usePermissionDialog: currentRequest as it would be if it showed the newest request
CurrentRequestNewest ==
    IF Len(pendingRequests) > 0 THEN pendingRequests[Len(pendingRequests)] ELSE Null

\* usePermissionDialog: currentRequest
CurrentRequest == IF Len(pendingRequests) > 0 THEN pendingRequests[1] ELSE Null

\* a direct call of the store action resolveRequest (usePermissionDialog.handleRespond)
HandleRespond(id, allowed, scope) ==
    /\ ~MidTask
    /\ ResolveRequest(id, allowed, scope)
    /\ last' = [op |-> "resolveRequest",
                a |-> <<id, allowed, scope, HasRequest(id),
                        IF HasRequest(id) THEN FindRequest(id).tool ELSE "",
                        IF HasRequest(id) THEN FindRequest(id).path ELSE "">>]
    /\ scenario' = ScenarioOff
    /\ UNCHANGED <<chanVars, logVars, uiVars, toolUses, clock, apiCalls, reloads, now, pageVars,
                   planVars>>

\* clearSessionPermissions
ClearSessionPermissions ==
    /\ ~MidTask
    /\ apiCalls < MaxApiCalls
    /\ apiCalls' = apiCalls + 1
    /\ sessionPermissions' = <<>>
    /\ pendingRequests' = <<>>
    /\ toolUses' = <<>>
    /\ last' = [op |-> "clearSessionPermissions", a |-> <<Len(pendingRequests)>>]
    /\ scenario' = ScenarioOff
    /\ UNCHANGED <<chanVars, logVars, uiVars, persistentPermissions, clock, reloads, now,
                   pageVars,
                   planVars>>

\* clearPersistentPermission
ClearPersistentPermission(tool, path) ==
    /\ ~MidTask
    /\ apiCalls < MaxApiCalls
    /\ apiCalls' = apiCalls + 1
    /\ persistentPermissions' = Drop(persistentPermissions, GetPermissionKey(tool, path))
    /\ last' = [op |-> "clearPersistentPermission", a |-> <<tool, path>>]
    /\ scenario' = ScenarioOff
    /\ UNCHANGED <<chanVars, logVars, uiVars, pendingRequests, sessionPermissions,
                   toolUses, clock, reloads, now, pageVars, planVars>>

\* clearAllPersistentPermissions as it would be if it emptied both grant stores
ClearAllPermissions ==
    /\ ~MidTask
    /\ apiCalls < MaxApiCalls
    /\ apiCalls' = apiCalls + 1
    /\ persistentPermissions' = <<>>
    /\ sessionPermissions' = <<>>
    /\ last' = [op |-> "clearAllPersistentPermissions", a |-> <<>>]
    /\ scenario' = ScenarioOff
    /\ UNCHANGED <<chanVars, logVars, uiVars, pendingRequests, toolUses, clock, reloads, now,
                   pageVars,
                   planVars>>

\* clearAllPersistentPermissions
ClearAllPersistentPermissions ==
    /\ ~MidTask
    /\ apiCalls < MaxApiCalls
    /\ apiCalls' = apiCalls + 1
    /\ persistentPermissions' = <<>>
    /\ last' = [op |-> "clearAllPersistentPermissions", a |-> <<>>]
    /\ scenario' = ScenarioOff
    /\ UNCHANGED <<chanVars, logVars, uiVars, pendingRequests, sessionPermissions,
                   toolUses, clock, reloads, now, pageVars, planVars>>

(* ------------------------------- sends -------------------------------- *)

\* AddMessage as it would be if new entries were put first
AddMessageFirst(type, content) == <<[type |-> type, content |-> content]>> \o messages

\* addMessage
AddMessage(type, content) == Append(messages, [type |-> type, content |-> content])

\* the body of sendMessage
MessageSent(content, m) ==
    IF Trim(content) = <<>>
    THEN UNCHANGED logVars
    ELSE IF WsRefOpen
    THEN /\ messages' = AddMessage("user", Trim(content))
         /\ messageIds' = Append(messageIds, now)
         /\ outbound' = Append(outbound, [sock |-> wsRef, type |-> "message",
                                        body |-> <<Trim(content), m>>])
    ELSE UNCHANGED logVars

\* sendMessage as it would be without the readyState check
SendMessageUnchecked(content, m) ==
    /\ ~MidTask
    /\ mounted
    /\ Len(messages) < MaxMessages /\ Len(outbound) < MaxOutbound
    /\ IF Trim(content) = <<>>
       THEN UNCHANGED logVars
       ELSE /\ messages' = AddMessage("user", Trim(content))
            /\ messageIds' = Append(messageIds, now)
            /\ outbound' = Append(outbound, [sock |-> wsRef, type |-> "message",
                                           body |-> <<Trim(content), m>>])
    /\ last' = [op |-> "sendMessage", a |-> <<content, m, WsRefOpen>>]
    /\ UNCHANGED <<chanVars, uiVars, permVars, reloads, now, pageVars, planVars, scenario>>

\* sendMessage
SendMessage(content, m) ==
    /\ ~MidTask
    /\ mounted
    /\ Len(messages) < MaxMessages /\ Len(outbound) < MaxOutbound
    /\ MessageSent(content, m)
    /\ last' = [op |-> "sendMessage", a |-> <<content, m, WsRefOpen>>]
    /\ UNCHANGED <<chanVars, uiVars, permVars, reloads, now, pageVars, planVars, scenario>>

\* the body of sendCommand
CommandSent(command, args) ==
    IF WsRefOpen
    THEN /\ messages' = AddMessage("system", <<"Running /", command, "...">>)
         /\ messageIds' = Append(messageIds, now)
         /\ outbound' = Append(outbound, [sock |-> wsRef, type |-> "command",
                                        body |-> <<command, args>>])
    ELSE UNCHANGED logVars

\* sendCommand
SendCommand(command, args) ==
    /\ ~MidTask
    /\ mounted
    /\ Len(messages) < MaxMessages /\ Len(outbound) < MaxOutbound
    /\ CommandSent(command, args)
    /\ last' = [op |-> "sendCommand", a |-> <<command, args, WsRefOpen>>]
    /\ UNCHANGED <<chanVars, uiVars, permVars, reloads, now, pageVars, planVars, scenario>>

\* the send of sendPermissionResponse
PermissionResponseSent(requestId, allowed, scope) ==
    IF WsRefOpen
    THEN outbound' = Append(outbound, [sock |-> wsRef, type |-> "permission_response",
                                       body |-> <<requestId, allowed, scope>>])
    ELSE UNCHANGED outbound

\* sendPermissionResponse
SendPermissionResponse(requestId, allowed, scope) ==
    /\ ~MidTask
    /\ mounted
    /\ Len(outbound) < MaxOutbound
    /\ PermissionResponseSent(requestId, allowed, scope)
    /\ last' = [op |-> "sendPermissionResponse",
                a |-> <<requestId, allowed, scope, WsRefOpen>>]
    /\ scenario' = ScenarioOff
    /\ UNCHANGED <<chanVars, messages, messageIds, uiVars, permVars, reloads, now, pageVars,
                   planVars>>

\* SessionPage.onPermissionRespond, called by PermissionDialog.handleResponse
\* with the id of the request it shows
OnPermissionRespond(allowed, scope) ==
    /\ ~MidTask
    /\ mounted
    /\ Len(pendingRequests) > 0
    /\ Len(outbound) < MaxOutbound
    /\ ResolveRequest(CurrentRequest.id, allowed, scope)
    /\ PermissionResponseSent(CurrentRequest.id, allowed, scope)
    /\ last' = [op |-> "onPermissionRespond",
                a |-> <<CurrentRequest.id, allowed, scope, WsRefOpen>>]
    /\ scenario' = Follow(<<"permission_response", CurrentRequest.id, allowed, scope>>)
    /\ UNCHANGED <<chanVars, messages, messageIds, uiVars, toolUses, clock, apiCalls, reloads,
                   now, pageVars, planVars>>

(* ------------------------------ inbound ------------------------------- *)

\* the payloads the server may send; "malformed" is a payload JSON.parse rejects
PermissionRequestEvents ==
    [type : {"permission_request"}, request_id : RequestIds, tool : WireToolNames,
     path : Paths \cup {NoPath}]

ToolUseEvents ==
    [type : {"tool_use"}, tool_id : ToolUseIds, tool_name : {"Edit"},
     status : {"running", "completed", "error"}]

TranscriptEvents ==
    [type : {"response", "error", "command_result"}, content : {<<"o", "k">>}]
        \cup [type : {"command_error"}, error : {<<"n", "o">>}]
        \cup [type : {"connected"}, working_dir : WorkingDirs]

SignalEvents ==
    [type : {"typing"}, status : BOOLEAN]
        \cup [type : {"text_delta"}, content : {<<"o">>}]
        \cup [type : {"pong", "unknown", "malformed"}]

\* the store tracks a tool use with this id
Tracked(id) == \E i \in 1..Len(toolUses) : toolUses[i].id = id

\* the map as it would be with the comparison of the ids inverted
SetStatusOthers(list, id, status) ==
    [i \in 1..Len(list) |-> IF list[i].id # id
                            THEN [list[i] EXCEPT !.status = status] ELSE list[i]]

\* map over a list, replacing the status of the entries with the given id
SetStatus(list, id, status) ==
    [i \in 1..Len(list) |-> IF list[i].id = id
                            THEN [list[i] EXCEPT !.status = status] ELSE list[i]]

\* the text_delta case as it would be if each fragment became an entry
TextDeltaAsEntry(data) ==
    /\ messages' = Append(messages, [type |-> "assistant", content |-> data.content])
    /\ messageIds' = Append(messageIds, now)
    /\ streamingContent' = streamingContent \o data.content
    /\ UNCHANGED <<isTyping, workingDir, activeToolUses, permVars>>

\* the text_delta case of onmessage
TextDelta(data) ==
    /\ streamingContent' = streamingContent \o data.content
    /\ UNCHANGED <<messages, messageIds, isTyping, workingDir, activeToolUses, permVars>>

\* the payload as it would be handled if a failure were shown in the transcript
DroppedWithEntry ==
    /\ messages' = Append(messages, [type |-> "error", content |-> <<"?">>])
    /\ messageIds' = Append(messageIds, now)
    /\ UNCHANGED <<uiVars, permVars>>

\* a payload JSON.parse rejects (catch), a pong, or a type the switch does not
\* know (default): logged at most
Dropped == UNCHANGED <<messages, messageIds, uiVars, permVars>>

\* onmessage
WsMessage(s, data) ==
    /\ ~MidTask
    /\ s \in DOMAIN sockets
    /\ sockets[s].rs = "OPEN" \/ (sockets[s].rs = "CLOSING" /\ sockets[s].opened)
    /\ CASE data.type = "connected" ->
              /\ Len(messages) < MaxMessages
              /\ workingDir' = data.working_dir
              /\ messages' = AddMessage("system",
                     <<"Connected to ", data.working_dir, ". Claude is ready to help.">>)
              /\ messageIds' = Append(messageIds, now)
              /\ UNCHANGED <<isTyping, activeToolUses, streamingContent, permVars>>
         [] data.type = "typing" ->
              /\ isTyping' = data.status
              /\ UNCHANGED <<messages, messageIds, workingDir, activeToolUses, streamingContent,
                             permVars>>
         [] data.type = "response" ->
              /\ Len(messages) < MaxMessages
              /\ messages' = AddMessage("assistant", data.content)
              /\ messageIds' = Append(messageIds, now)
              /\ UNCHANGED <<uiVars, permVars>>
         [] data.type = "error" ->
              /\ Len(messages) < MaxMessages
              /\ messages' = AddMessage("error", data.content)
              /\ messageIds' = Append(messageIds, now)
              /\ UNCHANGED <<uiVars, permVars>>
         [] data.type = "command_result" ->
              /\ Len(messages) < MaxMessages
              /\ messages' = AddMessage("command_result", data.content)
              /\ messageIds' = Append(messageIds, now)
              /\ UNCHANGED <<uiVars, permVars>>
         [] data.type = "command_error" ->
              /\ Len(messages) < MaxMessages
              /\ messages' = AddMessage("error", <<"Command error: ">> \o data.error)
              /\ messageIds' = Append(messageIds, now)
              /\ UNCHANGED <<uiVars, permVars>>
         [] data.type = "text_delta" ->
              /\ Len(streamingContent) < MaxMessages
              /\ TextDelta(data)
         [] data.type = "tool_use" ->
              /\ IF data.status = "running"
                 THEN /\ Len(toolUses) < MaxToolUses
                      /\ Len(activeToolUses) < MaxToolUses
                      /\ activeToolUses' = Append(activeToolUses,
                             [id |-> data.tool_id, name |-> data.tool_name,
                              status |-> data.status])
                      /\ toolUses' = Append(toolUses,
                             [id |-> data.tool_id, tool |-> MapToolName(data.tool_name),
                              status |-> "running"])
                 ELSE IF data.status = "completed"
                 THEN /\ activeToolUses' = SetStatus(activeToolUses, data.tool_id, "completed")
                      /\ toolUses' = SetStatus(toolUses, data.tool_id, "completed")
                 ELSE UNCHANGED <<activeToolUses, toolUses>>
              /\ UNCHANGED <<messages, messageIds, isTyping, workingDir, streamingContent,
                             pendingRequests, sessionPermissions, persistentPermissions,
                             clock, apiCalls>>
         [] data.type = "permission_request" ->
              /\ clock < MaxArrivals
              /\ clock' = clock + 1
              /\ pendingRequests' = AddRequest(data.request_id, MapToolName(data.tool),
                                               data.path)
              /\ UNCHANGED <<messages, messageIds, uiVars, sessionPermissions,
                             persistentPermissions, toolUses, apiCalls>>
         [] OTHER ->
              Dropped
    /\ scenario' = Follow(EventOf(data))
    /\ last' = [op |-> "onmessage",
                a |-> <<s, data.type, EventOf(data),
                        data.type = "tool_use" /\ Tracked(data.tool_id)>>]
    /\ UNCHANGED <<chanVars, outbound, reloads, now, pageVars, planVars>>

\* the reload as it would be if partialize kept the session grants as well
ReloadKeepsSession ==
    /\ reloads < MaxReloads
    /\ reloads' = reloads + 1
    /\ mounted' = TRUE
    /\ timers' = <<[kind |-> "mount", sid |-> sessionId, delay |-> MountDelay]>>
    /\ sockets' = <<>>
    /\ wsRef' = NoSocket
    /\ reconnectAttempts' = 0
    /\ backoffLog' = <<>>
    /\ connectionStatus' = "disconnected"
    /\ messages' = <<>>
    /\ messageIds' = <<>>
    /\ outbound' = <<>>
    /\ pendingRequests' = <<>>
    /\ toolUses' = <<>>
    /\ isTyping' = FALSE
    /\ workingDir' = ""
    /\ activeToolUses' = <<>>
    /\ streamingContent' = <<>>
    /\ planContent' = Null
    /\ planSteps' = <<>>
    /\ planApproved' = FALSE
    /\ inputValue' = <<>>
    /\ showSlashMenu' = FALSE
    /\ route' = SessionRoute
    /\ heartbeat' = TRUE
    /\ scenario' = ScenarioOff
    /\ last' = [op |-> "reload", a |-> <<sessionPermissions>>]
    /\ UNCHANGED <<sessionId, persistentPermissions, sessionPermissions, clock,
                   sessionChanges, apiCalls, mode, now>>

\* the page is reloaded: every object of the page is gone, the stores start from
\* their initial state, and persist() restores what partialize wrote
Reload ==
    /\ reloads < MaxReloads
    /\ reloads' = reloads + 1
    /\ mounted' = TRUE
    /\ timers' = <<[kind |-> "mount", sid |-> sessionId, delay |-> MountDelay]>>
    /\ sockets' = <<>>
    /\ wsRef' = NoSocket
    /\ reconnectAttempts' = 0
    /\ backoffLog' = <<>>
    /\ connectionStatus' = "disconnected"
    /\ messages' = <<>>
    /\ messageIds' = <<>>
    /\ outbound' = <<>>
    /\ pendingRequests' = <<>>
    /\ sessionPermissions' = <<>>
    /\ toolUses' = <<>>
    /\ isTyping' = FALSE
    /\ workingDir' = ""
    /\ activeToolUses' = <<>>
    /\ streamingContent' = <<>>
    /\ planContent' = Null
    /\ planSteps' = <<>>
    /\ planApproved' = FALSE
    /\ inputValue' = <<>>
    /\ showSlashMenu' = FALSE
    /\ route' = SessionRoute
    /\ heartbeat' = TRUE
    /\ scenario' = ScenarioOff
    /\ last' = [op |-> "reload", a |-> <<sessionPermissions>>]
    /\ UNCHANGED <<sessionId, persistentPermissions, clock, sessionChanges, apiCalls,
                   mode, now>>

(* ------------------------ Slash-Command Router ------------------------ *)

\* the command table; strings are sequences of characters
Commands ==
    <<
       [name |-> <<"h", "e", "l", "p">>, handler |-> "frontend",
        keywords |-> <<<<"c", "o", "m", "m", "a", "n", "d", "s">>,
                       <<"l", "i", "s", "t">>,
                       <<"?">>>>],
       [name |-> <<"c", "l", "e", "a", "r">>, handler |-> "frontend",
        keywords |-> <<<<"r", "e", "s", "e", "t">>,
                       <<"c", "l", "e", "a", "n">>>>],
       [name |-> <<"p", "l", "a", "n">>, handler |-> "frontend",
        keywords |-> <<<<"p", "l", "a", "n", "n", "i", "n", "g">>,
                       <<"m", "o", "d", "e">>>>],
       [name |-> <<"s", "t", "a", "t", "u", "s">>, handler |-> "backend",
        keywords |-> <<<<"i", "n", "f", "o">>,
                       <<"s", "e", "s", "s", "i", "o", "n">>>>],
       [name |-> <<"f", "i", "l", "e", "s">>, handler |-> "backend",
        keywords |-> <<<<"g", "i", "t">>,
                       <<"c", "h", "a", "n", "g", "e", "s">>,
                       <<"m", "o", "d", "i", "f", "i", "e", "d">>>>],
       [name |-> <<"c", "o", "m", "p", "a", "c", "t">>, handler |-> "backend",
        keywords |-> <<<<"c", "o", "m", "p", "r", "e", "s", "s">>,
                       <<"s", "u", "m", "m", "a", "r", "i", "z", "e">>>>],
       [name |-> <<"c", "o", "s", "t">>, handler |-> "backend",
        keywords |-> <<<<"t", "o", "k", "e", "n", "s">>,
                       <<"u", "s", "a", "g", "e">>,
                       <<"p", "r", "i", "c", "e">>>>],
       [name |-> <<"s", "e", "t", "t", "i", "n", "g", "s">>, handler |-> "frontend",
        keywords |-> <<<<"p", "r", "e", "f", "e", "r", "e", "n", "c", "e", "s">>,
                       <<"c", "o", "n", "f", "i", "g">>>>]
    >>

UpperCase == <<"A", "B", "C", "D", "E", "F", "G", "H", "I", "J", "K", "L", "M",
               "N", "O", "P", "Q", "R", "S", "T", "U", "V", "W", "X", "Y", "Z">>
LowerCase == <<"a", "b", "c", "d", "e", "f", "g", "h", "i", "j", "k", "l", "m",
               "n", "o", "p", "q", "r", "s", "t", "u", "v", "w", "x", "y", "z">>

\* String.prototype.toLowerCase
ToLowerCase(s) ==
    [i \in 1..Len(s) |->
        IF \E k \in 1..Len(UpperCase) : UpperCase[k] = s[i]
        THEN LowerCase[CHOOSE k \in 1..Len(UpperCase) : UpperCase[k] = s[i]]
        ELSE s[i]]

\* String.prototype.startsWith
StartsWith(s, p) == Len(p) <= Len(s) /\ SubSeq(s, 1, Len(p)) = p

\* the index of the first character of s from position i on that is in set,
\* Len(s) + 1 when there is none
RECURSIVE FirstIn(_, _, _)
FirstIn(s, i, set) ==
    IF i > Len(s) THEN Len(s) + 1
    ELSE IF s[i] \in set THEN i ELSE FirstIn(s, i + 1, set)

\* the index of the first character of s from position i on that is not
\* whitespace, Len(s) + 1 when there is none
RECURSIVE FirstNotWhitespace(_, _)
FirstNotWhitespace(s, i) ==
    IF i > Len(s) THEN Len(s) + 1
    ELSE IF s[i] \notin Whitespace THEN i ELSE FirstNotWhitespace(s, i + 1)

\* String.prototype.split(/\s+/): the pieces between the maximal runs of
\* whitespace; a leading or trailing run yields an empty piece, and the empty
\* string yields one empty piece
RECURSIVE SplitWhitespace(_)
SplitWhitespace(s) ==
    LET i == FirstIn(s, 1, Whitespace)
    IN  IF i > Len(s) THEN <<s>>
        ELSE <<SubSeq(s, 1, i - 1)>>
                 \o SplitWhitespace(SubSeq(s, FirstNotWhitespace(s, i), Len(s)))

\* parseSlashCommand returns a value (not null)
Parses(input) ==
    /\ StartsWith(Trim(input), <<"/">>)
    /\ ToLowerCase(SplitWhitespace(Tail(Trim(input)))[1]) # <<>>

\* parseSlashCommand as it would be without lower-casing the command name
ParseSlashCommandKeepCase(input) ==
    LET parts == SplitWhitespace(Tail(Trim(input)))
    IN  [command |-> parts[1], args |-> Tail(parts)]

\* parseSlashCommand, where it does not return null
ParseSlashCommand(input) ==
    LET parts == SplitWhitespace(Tail(Trim(input)))
    IN  [command |-> ToLowerCase(parts[1]), args |-> Tail(parts)]

\* getMatchingCommands as it would be if it looked at the names only
GetMatchingCommandsByName(prefix) ==
    LET lower == ToLowerCase(prefix)
    IN  IF lower = <<>> THEN Commands
        ELSE SelectSeq(Commands, LAMBDA cmd : StartsWith(cmd.name, lower))

\* getMatchingCommands
GetMatchingCommands(prefix) ==
    LET lower == ToLowerCase(prefix)
    IN  IF lower = <<>> THEN Commands
        ELSE SelectSeq(Commands, LAMBDA cmd :
                 \/ StartsWith(cmd.name, lower)
                 \/ \E k \in 1..Len(cmd.keywords) : StartsWith(cmd.keywords[k], lower))

\* findCommand returns a command (not undefined)
HasCommand(name) == \E i \in 1..Len(Commands) : Commands[i].name = ToLowerCase(name)

\* findCommand, where it finds one
FindCommand(name) ==
    Commands[CHOOSE i \in 1..Len(Commands) :
        /\ Commands[i].name = ToLowerCase(name)
        /\ \A j \in 1..(i - 1) : Commands[j].name # ToLowerCase(name)]

\* isSlashCommandInput
IsSlashCommandInput(input) == StartsWith(TrimStart(input), <<"/">>)

\* getCommandPrefix(inputValue) || '': what the page passes to the menu
GetCommandPrefix(input) ==
    IF ~StartsWith(TrimStart(input), <<"/">>) THEN <<>>
    ELSE LET afterSlash == Tail(TrimStart(input))
         IN  SubSeq(afterSlash, 1, FirstIn(afterSlash, 1, {" "}) - 1)

\* generateHelpText: the lines of the help text
HelpText == <<"Available commands:", "", "  /help - Show available commands", "...",
              "", "Tip: Press Cmd/Ctrl+K to open the command palette">>

(* ---------------------------- Plan Workflow --------------------------- *)

\* a plan is held: content, steps or approval differ from their initial values
PlanHeld == planContent # Null \/ planSteps # <<>> \/ planApproved

\* setMode
SetMode(m) ==
    /\ ~MidTask
    /\ mode' = m
    /\ last' = [op |-> "setMode", a |-> <<mode, m, PlanHeld>>]
    /\ UNCHANGED <<chanVars, logVars, uiVars, permVars, reloads, now,
                   pageVars, planContent, planSteps,
                   planApproved, scenario>>

\* the state update of toggleMode
ModeToggled ==
    /\ mode' = IF mode = "normal" THEN "plan" ELSE "normal"
    /\ IF mode = "plan"
       THEN /\ planContent' = Null
            /\ planSteps' = <<>>
            /\ planApproved' = FALSE
       ELSE UNCHANGED <<planContent, planSteps, planApproved>>

\* toggleMode as it would be without the reset of the plan
ToggleModeKeepsPlan ==
    /\ ~MidTask
    /\ mode' = IF mode = "normal" THEN "plan" ELSE "normal"
    /\ UNCHANGED <<planContent, planSteps, planApproved>>
    /\ last' = [op |-> "toggleMode", a |-> <<mode, PlanHeld>>]
    /\ UNCHANGED <<chanVars, logVars, uiVars, permVars, reloads, now, pageVars, scenario>>

\* toggleMode
ToggleMode ==
    /\ ~MidTask
    /\ ModeToggled
    /\ last' = [op |-> "toggleMode", a |-> <<mode, PlanHeld>>]
    /\ UNCHANGED <<chanVars, logVars, uiVars, permVars, reloads, now, pageVars, scenario>>

\* setPlanContent
SetPlanContent(content) ==
    /\ ~MidTask
    /\ planContent' = content
    /\ last' = [op |-> "setPlanContent", a |-> <<content>>]
    /\ UNCHANGED <<chanVars, logVars, uiVars, permVars, reloads, now, pageVars, mode, planSteps,
                   planApproved, scenario>>

\* setPlanSteps
SetPlanSteps(steps) ==
    /\ ~MidTask
    /\ planSteps' = steps
    /\ last' = [op |-> "setPlanSteps", a |-> <<Len(steps)>>]
    /\ UNCHANGED <<chanVars, logVars, uiVars, permVars, reloads, now,
                   pageVars, mode, planContent,
                   planApproved, scenario>>

HasStep(stepId) == \E i \in 1..Len(planSteps) : planSteps[i].id = stepId

\* updateStepStatus as it would be if it added a step for an id it does not find
UpdateStepStatusUpsert(stepId, status) ==
    /\ ~MidTask
    /\ planSteps' = IF HasStep(stepId)
                    THEN [i \in 1..Len(planSteps) |->
                             IF planSteps[i].id = stepId
                             THEN [planSteps[i] EXCEPT !.status = status]
                             ELSE planSteps[i]]
                    ELSE Append(planSteps, [id |-> stepId, description |-> "",
                                            status |-> status])
    /\ last' = [op |-> "updateStepStatus", a |-> <<stepId, status, HasStep(stepId)>>]
    /\ UNCHANGED <<chanVars, logVars, uiVars, permVars, reloads, now,
                   pageVars, mode, planContent,
                   planApproved, scenario>>

\* updateStepStatus
UpdateStepStatus(stepId, status) ==
    /\ ~MidTask
    /\ planSteps' = [i \in 1..Len(planSteps) |->
                        IF planSteps[i].id = stepId
                        THEN [planSteps[i] EXCEPT !.status = status]
                        ELSE planSteps[i]]
    /\ last' = [op |-> "updateStepStatus", a |-> <<stepId, status, HasStep(stepId)>>]
    /\ UNCHANGED <<chanVars, logVars, uiVars, permVars, reloads, now,
                   pageVars, mode, planContent,
                   planApproved, scenario>>

\* approvePlan as it would be if it flipped the flag
ApprovePlanToggles ==
    /\ ~MidTask
    /\ planApproved' = ~planApproved
    /\ last' = [op |-> "approvePlan", a |-> <<planApproved>>]
    /\ UNCHANGED <<chanVars, logVars, uiVars, permVars, reloads, now,
                   pageVars, mode, planContent,
                   planSteps, scenario>>

\* approvePlan
ApprovePlan ==
    /\ ~MidTask
    /\ planApproved' = TRUE
    /\ last' = [op |-> "approvePlan", a |-> <<planApproved>>]
    /\ UNCHANGED <<chanVars, logVars, uiVars, permVars, reloads, now,
                   pageVars, mode, planContent,
                   planSteps, scenario>>

\* resetPlan
ResetPlan ==
    /\ ~MidTask
    /\ planContent' = Null
    /\ planSteps' = <<>>
    /\ planApproved' = FALSE
    /\ last' = [op |-> "resetPlan", a |-> <<PlanHeld>>]
    /\ UNCHANGED <<chanVars, logVars, uiVars, permVars, reloads, now, pageVars, mode, scenario>>

(* ------------------------------- Clock -------------------------------- *)

\* a millisecond passes between two tasks
Tick ==
    /\ ~MidTask
    /\ now < MaxNow
    /\ now' = now + 1
    /\ UNCHANGED <<chanVars, logVars, uiVars, permVars, reloads, pageVars, planVars,
                   scenario, last>>

(* ----------------------------- Heartbeat ------------------------------ *)

\* the interval callback as it would be if it were skipped while reconnecting
HeartbeatTickThrottled ==
    /\ ~MidTask
    /\ heartbeat
    /\ reconnectAttempts = 0
    /\ WsRefOpen => Len(outbound) < MaxOutbound
    /\ outbound' = IF WsRefOpen
                   THEN Append(outbound, [sock |-> wsRef, type |-> "ping", body |-> <<>>])
                   ELSE outbound
    /\ last' = [op |-> "sendPing", a |-> <<WsRefOpen, reconnectAttempts>>]
    /\ UNCHANGED <<chanVars, messages, messageIds, uiVars, permVars, reloads, now, pageVars,
                   planVars, scenario>>

\* the callback of setInterval(sendPing, 30000): sendPing
HeartbeatTick ==
    /\ ~MidTask
    /\ heartbeat
    /\ WsRefOpen => Len(outbound) < MaxOutbound
    /\ outbound' = IF WsRefOpen
                   THEN Append(outbound, [sock |-> wsRef, type |-> "ping", body |-> <<>>])
                   ELSE outbound
    /\ last' = [op |-> "sendPing", a |-> <<WsRefOpen, reconnectAttempts>>]
    /\ UNCHANGED <<chanVars, messages, messageIds, uiVars, permVars, reloads, now, pageVars,
                   planVars, scenario>>

(* ---------------------------- Session Page ---------------------------- *)

\* the body of clearMessages
MessagesCleared ==
    /\ messages' = <<>>
    /\ messageIds' = <<>>
    /\ activeToolUses' = <<>>
    /\ streamingContent' = <<>>

\* clearMessages
ClearMessages ==
    /\ ~MidTask
    /\ mounted
    /\ MessagesCleared
    /\ last' = [op |-> "clearMessages", a |-> <<>>]
    /\ UNCHANGED <<chanVars, outbound, isTyping, workingDir, permVars, reloads, now, pageVars,
                   planVars, scenario>>

\* executeCommand
ExecuteCommand(command, args) ==
    /\ showSlashMenu' = FALSE
    /\ inputValue' = <<>>
    /\ IF command.handler = "frontend"
       THEN CASE command.name = <<"h", "e", "l", "p">> ->
                   /\ MessageSent(HelpText, "normal")
                   /\ UNCHANGED <<uiVars, planVars, route>>
              [] command.name = <<"c", "l", "e", "a", "r">> ->
                   /\ MessagesCleared
                   /\ UNCHANGED <<outbound, isTyping, workingDir, planVars, route>>
              [] command.name = <<"p", "l", "a", "n">> ->
                   /\ ModeToggled
                   /\ UNCHANGED <<logVars, uiVars, route>>
              [] command.name = <<"s", "e", "t", "t", "i", "n", "g", "s">> ->
                   /\ route' = SettingsRoute
                   /\ UNCHANGED <<logVars, uiVars, planVars>>
              [] OTHER ->
                   /\ MessageSent(<<"Unknown frontend command: /", command.name>>,
                                  "normal")
                   /\ UNCHANGED <<uiVars, planVars, route>>
       ELSE /\ CommandSent(command.name, args)
            /\ UNCHANGED <<uiVars, planVars, route>>

\* the input box and the send button are enabled
InputEnabled == connectionStatus = "connected" /\ ~isTyping

\* the commands the slash menu lists
MatchingCommands == GetMatchingCommands(GetCommandPrefix(inputValue))

\* handleInputChange
HandleInputChange(value) ==
    /\ ~MidTask
    /\ mounted
    /\ InputEnabled
    /\ inputValue' = value
    /\ showSlashMenu' = IsSlashCommandInput(value)
    /\ last' = [op |-> "handleInputChange", a |-> <<value>>]
    /\ UNCHANGED <<chanVars, logVars, uiVars, permVars, reloads, now, route, heartbeat,
                   planVars, scenario>>

\* what handleSend does with the input: nothing, run a command, or send it
SendKind(input) ==
    IF Trim(input) = <<>> THEN "blank"
    ELSE IF Parses(input) /\ HasCommand(ParseSlashCommand(input).command)
    THEN "command"
    ELSE "message"

\* handleSend as it would be if a parsed name outside the table were forwarded
HandleSendForwardsUnknown ==
    /\ ~MidTask
    /\ mounted
    /\ InputEnabled
    /\ Len(messages) < MaxMessages /\ Len(outbound) < MaxOutbound
    /\ CASE SendKind(inputValue) = "blank" ->
              UNCHANGED <<logVars, uiVars, planVars, inputValue, showSlashMenu, route>>
         [] SendKind(inputValue) = "command" ->
              ExecuteCommand(FindCommand(ParseSlashCommand(inputValue).command),
                             ParseSlashCommand(inputValue).args)
         [] OTHER ->
              /\ IF Parses(inputValue)
                 THEN CommandSent(ParseSlashCommand(inputValue).command,
                                  ParseSlashCommand(inputValue).args)
                 ELSE MessageSent(inputValue, mode)
              /\ inputValue' = <<>>
              /\ showSlashMenu' = FALSE
              /\ UNCHANGED <<uiVars, planVars, route>>
    /\ last' = [op |-> "handleSend",
                a |-> <<inputValue, SendKind(inputValue), mode, WsRefOpen>>]
    /\ UNCHANGED <<chanVars, permVars, reloads, now, heartbeat, scenario>>

\* handleSend
HandleSend ==
    /\ ~MidTask
    /\ mounted
    /\ InputEnabled
    /\ Len(messages) < MaxMessages /\ Len(outbound) < MaxOutbound
    /\ CASE SendKind(inputValue) = "blank" ->
              UNCHANGED <<logVars, uiVars, planVars, inputValue, showSlashMenu, route>>
         [] SendKind(inputValue) = "command" ->
              ExecuteCommand(FindCommand(ParseSlashCommand(inputValue).command),
                             ParseSlashCommand(inputValue).args)
         [] OTHER ->
              /\ MessageSent(inputValue, mode)
              /\ inputValue' = <<>>
              /\ showSlashMenu' = FALSE
              /\ UNCHANGED <<uiVars, planVars, route>>
    /\ last' = [op |-> "handleSend",
                a |-> <<inputValue, SendKind(inputValue), mode, WsRefOpen>>]
    /\ UNCHANGED <<chanVars, permVars, reloads, now, heartbeat, scenario>>

\* handleSelectCommand: a command chosen in the menu or the palette
HandleSelectCommand(command) ==
    /\ ~MidTask
    /\ mounted
    /\ Len(messages) < MaxMessages /\ Len(outbound) < MaxOutbound
    /\ ExecuteCommand(command, <<>>)
    /\ last' = [op |-> "handleSelectCommand", a |-> <<command.name, mode, WsRefOpen>>]
    /\ UNCHANGED <<chanVars, permVars, reloads, now, heartbeat, scenario>>

\* the number of pieces the typed input s consists of
RECURSIVE TypedPieces(_, _)
TypedPieces(s, pieces) ==
    IF s = <<>> THEN 0
    ELSE LET piece == CHOOSE p \in pieces : StartsWith(s, p)
         IN  1 + TypedPieces(SubSeq(s, Len(piece) + 1, Len(s)), pieces)

(* ------------------------------- Init --------------------------------- *)
Init ==
    /\ sessionId = "s1"
    /\ mounted = TRUE
    /\ timers = <<[kind |-> "mount", sid |-> "s1", delay |-> MountDelay]>>
    /\ sockets = <<>>
    /\ wsRef = NoSocket
    /\ reconnectAttempts = 0
    /\ backoffLog = <<>>
    /\ connectionStatus = "disconnected"
    /\ messages = <<>>
    /\ messageIds = <<>>
    /\ now = 0
    /\ outbound = <<>>
    /\ pendingRequests = <<>>
    /\ sessionPermissions = <<>>
    /\ persistentPermissions = <<>>
    /\ toolUses = <<>>
    /\ isTyping = FALSE
    /\ workingDir = ""
    /\ activeToolUses = <<>>
    /\ streamingContent = <<>>
    /\ clock = 0
    /\ reloads = 0
    /\ sessionChanges = 0
    /\ apiCalls = 0
    /\ mode = "normal"
    /\ planContent = Null
    /\ planSteps = <<>>
    /\ planApproved = FALSE
    /\ inputValue = <<>>
    /\ showSlashMenu = FALSE
    /\ route = SessionRoute
    /\ heartbeat = TRUE
    /\ scenario = <<>>
    /\ last = [op |-> "init", a |-> <<>>]

\* the choices the PermissionDialog offers
DialogChoices == {<<"true", "once">>, <<"false", "once">>, <<"true", "session">>,
                  <<"true", "always">>}

\* the Session Channel: connections, reconnect timers, session changes
ChannelNext ==
    \/ \E i \in 1..MaxSockets + 2 : TimerFire(i)
    \/ \E s \in SockIds : WsOpen(s)
    \/ \E s \in SockIds : WsError(s)
    \/ \E s \in SockIds : WsClose(s)
    \/ \E id \in Sessions : SetSessionId(id)
    \/ Unmount

SpecChannel == Init /\ [][ChannelNext]_vars

\* the send API of the channel over the connections of one session
SendNext ==
    \/ \E i \in 1..MaxSockets + 2 : TimerFire(i)
    \/ \E s \in SockIds : WsOpen(s)
    \/ \E s \in SockIds : WsError(s)
    \/ \E s \in SockIds : WsClose(s)
    \/ Unmount
    \/ \E c \in Contents, m \in Modes : SendMessage(c, m)
    \/ \E c \in CommandNames, args \in ArgLists : SendCommand(c, args)
    \/ \E b \in Allowed, sc \in Scopes : SendPermissionResponse("p1", b, sc)

SpecSend == Init /\ [][SendNext]_vars

\* the Permission Broker: the store actions, fed by one connection that stays open
BrokerNext ==
    \/ \E i \in 1..MaxSockets + 2 : TimerFire(i)
    \/ \E s \in SockIds : WsOpen(s)
    \/ \E s \in SockIds, d \in PermissionRequestEvents : WsMessage(s, d)
    \/ \E id \in RequestIds, b \in Allowed, sc \in Scopes : HandleRespond(id, b, sc)
    \/ ClearSessionPermissions
    \/ \E tool \in {"write", "bash"}, path \in Paths \cup {NoPath} :
          ClearPersistentPermission(tool, path)
    \/ ClearAllPersistentPermissions
    \/ Reload

SpecBroker == Init /\ [][BrokerNext]_vars

\* the payloads of one tool use and one permission request of one session
SessionEvents ==
    {d \in ToolUseEvents : d.tool_id = "t1"}
        \cup {d \in PermissionRequestEvents :
                 d.request_id = "p1" /\ d.tool = "write" /\ d.path # NoPath}

\* one page serving two sessions in turn: tool uses, permission requests and the
\* user's answers to the dialog
SessionNext ==
    \/ \E i \in 1..MaxSockets + 2 : TimerFire(i)
    \/ \E s \in SockIds : WsOpen(s)
    \/ \E id \in Sessions : SetSessionId(id)
    \/ \E s \in SockIds, d \in SessionEvents : WsMessage(s, d)
    \/ \E c \in DialogChoices : OnPermissionRespond(c[1], c[2])

SpecSession == Init /\ [][SessionNext]_vars

\* updates addressed by id: the tool-use tracker fed by one connection, and the
\* steps of the plan
TrackerNext ==
    \/ \E i \in 1..MaxSockets + 2 : TimerFire(i)
    \/ \E s \in SockIds : WsOpen(s)
    \/ \E s \in SockIds, d \in ToolUseEvents : WsMessage(s, d)
    \/ \E steps \in StepLists : SetPlanSteps(steps)
    \/ \E id \in StepIds, st \in StepStatuses : UpdateStepStatus(id, st)

SpecTracker == Init /\ [][TrackerNext]_vars

\* the Plan Workflow: the actions of the mode store, and the page reload that
\* restores what the store persists
PlanNext ==
    \/ \E m \in Modes : SetMode(m)
    \/ ToggleMode
    \/ \E content \in PlanContents \cup {Null} : SetPlanContent(content)
    \/ \E steps \in StepLists : SetPlanSteps(steps)
    \/ \E id \in StepIds, st \in StepStatuses : UpdateStepStatus(id, st)
    \/ ApprovePlan
    \/ ResetPlan
    \/ Reload

SpecPlan == Init /\ [][PlanNext]_vars

\* the input box on a connection that opens: the user types piece by piece and
\* submits, until the first event has gone out
ParseNext ==
    \/ \E i \in 1..MaxSockets + 2 : TimerFire(i)
    \/ \E s \in SockIds : WsOpen(s)
    \/ \E piece \in InputPieces :
          /\ outbound = <<>>
          /\ TypedPieces(inputValue, InputPieces) < MaxPieces
          /\ HandleInputChange(inputValue \o piece)
    \/ HandleSend

SpecParse == Init /\ [][ParseNext]_vars

\* the channel of one session with its heartbeat interval
HeartbeatNext ==
    \/ \E i \in 1..MaxSockets + 2 : TimerFire(i)
    \/ \E s \in SockIds : WsOpen(s)
    \/ \E s \in SockIds : WsError(s)
    \/ \E s \in SockIds : WsClose(s)
    \/ Unmount
    \/ HeartbeatTick

SpecHeartbeat == Init /\ [][HeartbeatNext]_vars

\* the transcript: inbound events of every kind but tool uses and permission
\* requests on an open connection, chat messages sent, and the explicit clear
TranscriptNext ==
    \/ \E i \in 1..MaxSockets + 2 : TimerFire(i)
    \/ \E s \in SockIds : WsOpen(s)
    \/ \E s \in SockIds, d \in TranscriptEvents \cup SignalEvents : WsMessage(s, d)
    \/ \E c \in Contents, m \in Modes : SendMessage(c, m)
    \/ ClearMessages

SpecTranscript == Init /\ [][TranscriptNext]_vars

\* the transcript with its entry ids: responses and errors arrive and chat
\* messages are sent while the millisecond clock advances
IdsNext ==
    \/ \E i \in 1..MaxSockets + 2 : TimerFire(i)
    \/ \E s \in SockIds : WsOpen(s)
    \/ \E s \in SockIds, d \in {e \in TranscriptEvents : e.type \in {"response", "error"}} :
          WsMessage(s, d)
    \/ \E c \in Contents, m \in Modes : SendMessage(c, m)
    \/ Tick

SpecIds == Init /\ [][IdsNext]_vars

\* the slash menu on a connection that opens: the user types key by key,
\* chooses a listed command or submits, until the first event has gone out
MenuNext ==
    \/ \E i \in 1..MaxSockets + 2 : TimerFire(i)
    \/ \E s \in SockIds : WsOpen(s)
    \/ \E piece \in MenuPieces :
          /\ outbound = <<>>
          /\ TypedPieces(inputValue, MenuPieces) < MaxPieces
          /\ HandleInputChange(inputValue \o piece)
    \/ \E i \in 1..Len(MatchingCommands) :
          /\ showSlashMenu
          /\ HandleSelectCommand(MatchingCommands[i])
    \/ HandleSend

SpecMenu == Init /\ [][MenuNext]_vars

\* the router: a connection that opens, answers and is replaced when the page
\* moves to another session; complete inputs are typed and submitted and
\* commands are chosen in the menu or the palette, until the first event has
\* gone out
RouterNext ==
    \/ \E i \in 1..MaxSockets + 2 : TimerFire(i)
    \/ \E s \in SockIds : WsOpen(s)
    \/ \E id \in Sessions : SetSessionId(id)
    \/ \E s \in SockIds, d \in {e \in TranscriptEvents : e.type = "response"} :
          WsMessage(s, d)
    \/ \E value \in RouterInputs :
          /\ outbound = <<>>
          /\ HandleInputChange(value)
    \/ HandleSend
    \/ \E i \in 1..Len(Commands) :
          /\ outbound = <<>>
          /\ HandleSelectCommand(Commands[i])

SpecRouter == Init /\ [][RouterNext]_vars
(* ============================== claims ================================ *)

BackoffDelays == <<1000, 2000, 4000, 8000, 16000>>

IsPrefix(p, q) == Len(p) <= Len(q) /\ SubSeq(q, 1, Len(p)) = p

\* every WebSocket object has delivered its close event and no timer is pending
Quiescent ==
    /\ timers = <<>>
    /\ \A s \in DOMAIN sockets : sockets[s].rs = "CLOSED"

SendOps == {"sendMessage", "sendCommand", "sendPermissionResponse"}

\* C1: the close event that follows disconnect() starts no backoff timer:
\* handling the close event of a connection that disconnect() closed leaves the
\* pending timers as they were.
C1_ExplicitCloseSchedulesNothing ==
    [][\A s \in SockIds :
          (WsClose(s) /\ sockets[s].closedBy = "disconnect") => timers' = timers]_vars

\* C2: at every moment at most one connection of the channel is live
\* (CONNECTING or OPEN).
C2_AtMostOneLive == Cardinality(LiveSockets) <= 1

\* C2 witness: connect() ran while the previous connection was still live, closed
\* it, and the new connection is the only live one.
C2_Witness ==
    /\ last.op = "connect"
    /\ \E s \in DOMAIN sockets : sockets[s].closedBy = "connect"
    /\ Cardinality(LiveSockets) = 1

\* C3: the delays of the reconnects scheduled since the last successful open are
\* 1s, 2s, 4s, 8s, 16s in this order and never more than these five; a close
\* handled after the fifth schedules nothing and leaves the state disconnected,
\* and when nothing is pending any more the state is disconnected.
C3_BackoffSequence ==
    /\ IsPrefix(backoffLog, BackoffDelays)
    /\ Len(backoffLog) = reconnectAttempts
    /\ (last.op = "onclose" /\ last.a[3] = MaxReconnectAttempts) =>
          /\ connectionStatus = "disconnected"
          /\ backoffLog = BackoffDelays
    /\ Quiescent => connectionStatus = "disconnected"

\* C3 witness: the fifth reconnect attempt has failed: its close event was handled
\* with five delays already scheduled, and nothing is pending.
C3_Witness ==
    /\ last.op = "onclose"
    /\ last.a[3] = MaxReconnectAttempts
    /\ backoffLog = BackoffDelays
    /\ Quiescent
    /\ connectionStatus = "disconnected"

C5_TeardownCancelsBackoff ==
    [][Unmount => \A i \in 1..Len(timers') : timers'[i].kind # "backoff"]_vars

\* C6: a send made while the connection is not open changes no state and emits
\* nothing, and nothing is emitted later for it: every outbound event is emitted
\* by a send call made while the connection is open, one event per call.
C6_SendsDroppedWhenNotOpen ==
    [][/\ (last'.op \in SendOps /\ ~WsRefOpen) =>
              UNCHANGED <<chanVars, logVars, uiVars, permVars>>
       /\ outbound' # outbound =>
              /\ last'.op \in SendOps
              /\ WsRefOpen
              /\ Len(outbound') = Len(outbound) + 1
              /\ SubSeq(outbound', 1, Len(outbound)) = outbound
              /\ outbound'[Len(outbound')].sock = wsRef]_vars

\* C6 witness: sendMessage with non-blank text was called after the connection
\* had dropped, and transcript and outbound log are still empty.
C6_Witness ==
    /\ last.op = "sendMessage"
    /\ last.a[3] = FALSE
    /\ Trim(last.a[1]) # <<>>
    /\ reconnectAttempts > 0
    /\ messages = <<>>
    /\ outbound = <<>>

\* C7: a pending permission request stays in the queue, in its position, unless
\* it is resolved or the session ends: every step other than a resolution or a
\* reload keeps the queue as a prefix of the new queue.
C7_PendingStaysQueued ==
    [][last'.op \notin {"resolveRequest", "onPermissionRespond", "reload"} =>
          IsPrefix(pendingRequests, pendingRequests')]_vars

\* C8: the request exposed as current is the head of the queue, and it is the
\* oldest request pending: no pending request arrived before it.
C8_CurrentIsOldest ==
    Len(pendingRequests) > 0 =>
        /\ CurrentRequest = pendingRequests[1]
        /\ \A i \in 1..Len(pendingRequests) :
              CurrentRequest.arrival <= pendingRequests[i].arrival
        /\ \A i, j \in 1..Len(pendingRequests) :
              i < j => pendingRequests[i].arrival < pendingRequests[j].arrival

\* C8 witness: two requests arrived before any resolution, the first was then
\* resolved, and the second is current.
C8_Witness ==
    /\ last.op = "resolveRequest"
    /\ last.a[4]
    /\ Len(pendingRequests) = 1
    /\ pendingRequests[1].arrival = 2

\* C9: resolveRequest(id, allowed, scope) for a pending id, whatever the scope and
\* the decision, leaves no request with that id pending and keeps the other
\* requests in their order.
C9_ResolveRemoves ==
    [][(last'.op = "resolveRequest" /\ last'.a[4]) =>
          /\ \A i \in 1..Len(pendingRequests') : pendingRequests'[i].id # last'.a[1]
          /\ pendingRequests' =
                SelectSeq(pendingRequests, LAMBDA r : r.id # last'.a[1])]_vars

\* C9 witness: a pending request was denied with scope once while another request
\* was pending, which is still queued.
C9_Witness ==
    /\ last.op = "resolveRequest"
    /\ last.a[2] = "false" /\ last.a[3] = "once" /\ last.a[4]
    /\ Len(pendingRequests) = 1
    /\ pendingRequests[1].id # last.a[1]

\* C10 as stated: after a resolution with scope once of a pending request, both
\* grant stores are unchanged and the check for the request's (tool, path)
\* yields null.
C10_OnceThenUnknown ==
    [][(last'.op = "resolveRequest" /\ last'.a[3] = "once" /\ last'.a[4]) =>
          /\ UNCHANGED <<sessionPermissions, persistentPermissions>>
          /\ CheckPermissionNext(last'.a[5], last'.a[6]) = Null]_vars

\* C10 as amended: a resolution with scope once writes no grant to either store,
\* so the check for every (tool, path) yields what it yielded before the
\* resolution: null when no grant applied to the request's (tool, path).
C10_OnceWritesNoGrant ==
    [][(last'.op = "resolveRequest" /\ last'.a[3] = "once" /\ last'.a[4]) =>
          /\ UNCHANGED <<sessionPermissions, persistentPermissions>>
          /\ \A tool \in ToolTypes, path \in Paths \cup {NoPath} :
                CheckPermissionNext(tool, path) = CheckPermission(tool, path)
          /\ CheckPermission(last'.a[5], last'.a[6]) = Null =>
                CheckPermissionNext(last'.a[5], last'.a[6]) = Null]_vars

\* C10 witness: a pending request was allowed with scope once and the check for
\* its (tool, path) yields null.
C10_Witness ==
    /\ last.op = "resolveRequest"
    /\ last.a[2] = "true" /\ last.a[3] = "once" /\ last.a[4]
    /\ CheckPermission(last.a[5], last.a[6]) = Null

\* the path argument under which a grant key is looked up
PathOf(key) == IF key[2] = "*" THEN NoPath ELSE key[2]

\* the step is a resolution with scope session of a pending request
SessionResolution == last'.op = "resolveRequest" /\ last'.a[3] = "session" /\ last'.a[4]

\* C11 as stated: a grant written by a resolution with scope session, until
\* clearSessionGrants removes it, decides the check for its (tool, path),
\* whatever the persistent store holds.
C11_SessionGrantDecides ==
    \A key \in DOMAIN sessionPermissions :
        CheckPermission(key[1], PathOf(key)) = sessionPermissions[key]

\* C11 as amended: a resolution with scope session stores its boolean under the
\* request's key; the session store keeps it through every step other than
\* clearSessionGrants, a reload or a later session-scoped resolution for the
\* same key, persistent-store operations included; and the check returns it
\* whenever the persistent store holds no grant for the exact key or the tool's
\* wildcard.
C11_SessionGrantKept ==
    [][/\ SessionResolution =>
              sessionPermissions'[GetPermissionKey(last'.a[5], last'.a[6])] = last'.a[2]
       /\ \A key \in DOMAIN sessionPermissions :
              (/\ last'.op \notin {"clearSessionPermissions", "reload"}
               /\ ~(SessionResolution /\ key = GetPermissionKey(last'.a[5], last'.a[6])))
              => /\ key \in DOMAIN sessionPermissions'
                 /\ sessionPermissions'[key] = sessionPermissions[key]
       /\ \A key \in DOMAIN sessionPermissions' :
              (/\ key \notin DOMAIN persistentPermissions'
               /\ <<key[1], "*">> \notin DOMAIN persistentPermissions')
              => CheckPermissionNext(key[1], PathOf(key)) = sessionPermissions'[key]]_vars

\* C11 witness: after a session-scoped grant, a request for another tool was
\* resolved with scope always, and the check still returns the session grant.
C11_Witness ==
    /\ last.op = "resolveRequest"
    /\ last.a[3] = "always" /\ last.a[4]
    /\ \E key \in DOMAIN sessionPermissions :
          /\ key[1] # last.a[5]
          /\ CheckPermission(key[1], PathOf(key)) = sessionPermissions[key]

\* C12 as stated: with a persistent wildcard grant of false and a session
\* exact-path grant of true for the same tool, the check for (tool, path)
\* returns true.
C12_MostSpecificWins ==
    \A tool \in ToolTypes, path \in Paths :
        (/\ <<tool, "*">> \in DOMAIN persistentPermissions
         /\ persistentPermissions[<<tool, "*">>] = "false"
         /\ <<tool, path>> \in DOMAIN sessionPermissions
         /\ sessionPermissions[<<tool, path>>] = "true")
        => CheckPermission(tool, path) = "true"

\* C12 as amended: with a persistent wildcard grant of false, a session
\* exact-path grant of true and no persistent exact-path grant for the same
\* tool, the check for (tool, path) returns false: the persistent store is
\* looked up before the session store.
C12_PersistentWildcardFirst ==
    \A tool \in ToolTypes, path \in Paths :
        (/\ <<tool, "*">> \in DOMAIN persistentPermissions
         /\ persistentPermissions[<<tool, "*">>] = "false"
         /\ <<tool, path>> \in DOMAIN sessionPermissions
         /\ sessionPermissions[<<tool, path>>] = "true"
         /\ <<tool, path>> \notin DOMAIN persistentPermissions)
        => CheckPermission(tool, path) = "false"

\* C12 witness: write is denied for every path in the persistent store and
\* allowed for one path in the session store, and the check for that path
\* returns false.
C12_Witness ==
    /\ <<"write", "*">> \in DOMAIN persistentPermissions
    /\ persistentPermissions[<<"write", "*">>] = "false"
    /\ <<"write", "/src/Hero.tsx">> \in DOMAIN sessionPermissions
    /\ sessionPermissions[<<"write", "/src/Hero.tsx">>] = "true"
    /\ CheckPermission("write", "/src/Hero.tsx") = "false"

\* C13: the check returns the value of the first grant found in the order
\* persistent exact-path, persistent wildcard, session exact-path, session
\* wildcard, and null when none of the four keys exists.
C13_LookupOrder ==
    \A tool \in ToolTypes, path \in Paths \cup {NoPath} :
        LET exact == IF path = NoPath THEN <<tool, "*">> ELSE <<tool, path>>
            wild == <<tool, "*">>
            P == persistentPermissions
            S == sessionPermissions
            r == CheckPermission(tool, path)
        IN  /\ exact \in DOMAIN P => r = P[exact]
            /\ (exact \notin DOMAIN P /\ wild \in DOMAIN P) => r = P[wild]
            /\ (exact \notin DOMAIN P /\ wild \notin DOMAIN P /\ exact \in DOMAIN S)
                  => r = S[exact]
            /\ (exact \notin DOMAIN P /\ wild \notin DOMAIN P /\ exact \notin DOMAIN S
                  /\ wild \in DOMAIN S) => r = S[wild]
            /\ (exact \notin DOMAIN P /\ wild \notin DOMAIN P /\ exact \notin DOMAIN S
                  /\ wild \notin DOMAIN S) => r = Null

\* C13 witness: a persistent exact-path grant and a session grant for the same
\* path disagree, and the check returns the persistent one.
C13_Witness ==
    \E tool \in ToolTypes, path \in Paths :
        /\ <<tool, path>> \in DOMAIN persistentPermissions
        /\ <<tool, path>> \in DOMAIN sessionPermissions
        /\ persistentPermissions[<<tool, path>>] # sessionPermissions[<<tool, path>>]
        /\ CheckPermission(tool, path) = persistentPermissions[<<tool, path>>]

\* what the persistent store alone answers for (tool, path)
PersistentLookup(tool, path) ==
    IF GetPermissionKey(tool, path) \in DOMAIN persistentPermissions
    THEN persistentPermissions[GetPermissionKey(tool, path)]
    ELSE IF <<tool, "*">> \in DOMAIN persistentPermissions
    THEN persistentPermissions[<<tool, "*">>]
    ELSE Null

\* C14: a reload empties the session grant store and leaves the persistent
\* grant store as it was, so that after it the check answers from the
\* persistent grants alone.
C14_ReloadKeepsPersistentOnly ==
    [][last'.op = "reload" =>
          /\ DOMAIN sessionPermissions' = {}
          /\ persistentPermissions' = persistentPermissions
          /\ \A tool \in ToolTypes, path \in Paths \cup {NoPath} :
                CheckPermissionNext(tool, path) = PersistentLookup(tool, path)]_vars

\* C14 witness: the page was reloaded while a session grant and a persistent
\* grant were stored; the check for the session grant's key yields null and the
\* check for the persistent grant's key yields the grant.
C14_Witness ==
    /\ last.op = "reload"
    /\ \E key \in DOMAIN last.a[1] : CheckPermission(key[1], PathOf(key)) = Null
    /\ \E key \in DOMAIN persistentPermissions :
          CheckPermission(key[1], PathOf(key)) = persistentPermissions[key]

\* C15: grants, pending requests and tracked tool uses are not shared across
\* sessions: when the page turns to a session that has not been open before,
\* that session observes an empty queue, no tracked tool use and an unknown
\* check for every (tool, path), whatever was created while the previous
\* session was open.
C15_NoCrossSessionSharing ==
    [][(sessionId' # sessionId /\ sessionChanges = 0) =>
          /\ pendingRequests' = <<>>
          /\ toolUses' = <<>>
          /\ \A tool \in ToolTypes, path \in Paths \cup {NoPath} :
                CheckPermissionNext(tool, path) = Null]_vars

\* the statuses the tracker holds for a tool-use id
StatusesOf(id) ==
    {toolUses[i].status : i \in {j \in 1..Len(toolUses) : toolUses[j].id = id}}

Terminal == {"completed", "error"}

\* C16: the tracked status of a tool-use id only moves from running to
\* completed or to error: an id that has reached a terminal status is never
\* tracked with another status again.
C16_StatusMonotonic ==
    [][\A id \in ToolUseIds :
          (StatusesOf(id) \cap Terminal # {}) =>
              \A i \in 1..Len(toolUses') :
                  toolUses'[i].id = id => toolUses'[i].status \in StatusesOf(id)]_vars

\* C17: an event that names an unknown id changes nothing: a completed
\* tool_use event for an id the tracker does not hold leaves the tracked tool
\* uses as they were, and updateStepStatus with an id that is not in the plan
\* leaves the steps and the rest of the plan state as they were.
C17_UnknownIdIsNoOp ==
    [][/\ (/\ last'.op = "onmessage"
           /\ last'.a[2] = "tool_use"
           /\ last'.a[3][3] = "completed"
           /\ ~last'.a[4])
          => UNCHANGED <<toolUses, activeToolUses>>
       /\ (last'.op = "updateStepStatus" /\ ~last'.a[3])
          => UNCHANGED <<planSteps, mode, planContent, planApproved>>]_vars

\* C17 witness: while t1 was tracked as running and the plan had steps, a
\* completed event for the untracked id t2 was handled; t1 is still the only
\* tool use and still running.
C17_Witness ==
    /\ last.op = "onmessage"
    /\ last.a[3] = <<"tool_use", "t2", "completed">>
    /\ ~last.a[4]
    /\ toolUses = <<[id |-> "t1", tool |-> "write", status |-> "running"]>>
    /\ Len(planSteps) = 2

\* C18: after the events of Scenario, handled in this order from page load, the
\* tool use t1 is completed, the permission queue is empty and neither store
\* holds a grant for write:/src/Hero.tsx.
C18_ScenarioFinalState ==
    scenario = Scenario =>
        /\ toolUses = <<[id |-> "t1", tool |-> "write", status |-> "completed"]>>
        /\ pendingRequests = <<>>
        /\ <<"write", "/src/Hero.tsx">> \notin DOMAIN sessionPermissions
        /\ <<"write", "/src/Hero.tsx">> \notin DOMAIN persistentPermissions

\* C18 witness: the four events of Scenario have been handled and the user's
\* answer went out to the agent.
C18_Witness ==
    /\ scenario = Scenario
    /\ Len(outbound) = 1
    /\ outbound[1].type = "permission_response"
    /\ outbound[1].body = <<"p1", "true", "once">>

\* C19: toggling the mode from plan to normal sets the content to null, the
\* steps to the empty list and the approval flag to false in the step that
\* changes the mode, and a toggle back to plan right after it yields an empty
\* plan.
C19_ToggleOffDiscardsPlan ==
    [][/\ (last'.op = "toggleMode" /\ mode = "plan") =>
              /\ mode' = "normal"
              /\ planContent' = Null
              /\ planSteps' = <<>>
              /\ planApproved' = FALSE
       /\ (last.op = "toggleMode" /\ last.a[1] = "plan" /\ last'.op = "toggleMode") =>
              /\ mode' = "plan"
              /\ planContent' = Null
              /\ planSteps' = <<>>
              /\ planApproved' = FALSE]_vars

\* C19 witness: the mode was toggled from plan to normal while a plan was
\* held, and nothing of it is left.
C19_Witness ==
    /\ last.op = "toggleMode"
    /\ last.a[1] = "plan" /\ last.a[2]
    /\ mode = "normal"
    /\ ~PlanHeld

\* C20: a plan exists only in plan mode: whenever the mode is normal, the
\* content is null, the step list is empty and the approval flag is false.
C20_PlanOnlyInPlanMode == mode = "normal" => ~PlanHeld

\* C21: approve() sets the approval flag to true and changes nothing else, a
\* second call changes nothing at all, and the flag goes back to false only in
\* a step that discards the plan (reset, the toggle out of plan mode, or the
\* reload that drops the whole plan state).
C21_ApprovalOneWay ==
    [][/\ last'.op = "approvePlan" =>
              /\ planApproved'
              /\ UNCHANGED <<mode, planContent, planSteps>>
              /\ planApproved => UNCHANGED planVars
       /\ (planApproved /\ ~planApproved') =>
              /\ last'.op \in {"resetPlan", "toggleMode", "reload"}
              /\ planContent' = Null
              /\ planSteps' = <<>>]_vars

\* C21 witness: approve() was called on a plan with content that was already
\* approved, and the plan is still approved.
C21_Witness ==
    /\ last.op = "approvePlan"
    /\ last.a[1]
    /\ planApproved
    /\ planContent # Null
(* ------------------------------ C22 ---------------------------------- *)
\* the maximal runs of non-whitespace characters of s, in order
RECURSIVE Tokens(_)
Tokens(s) ==
    IF s = <<>> THEN <<>>
    ELSE LET rest == Tokens(Tail(s))
         IN  IF Head(s) \in Whitespace THEN rest
             ELSE IF Len(s) > 1 /\ s[2] \notin Whitespace
             THEN <<<<Head(s)>> \o Head(rest)>> \o Tail(rest)
             ELSE <<<<Head(s)>>>> \o rest

\* the trimmed text begins with "/" directly followed by a token
SlashThenToken(text) ==
    /\ Len(Trim(text)) >= 2
    /\ Trim(text)[1] = "/"
    /\ Trim(text)[2] \notin Whitespace

\* C22: for every submitted text, parseSlashCommand returns a value exactly when
\* the trimmed text begins with "/" directly followed by a token; the value
\* then has the lower-cased first token as command and the remaining
\* whitespace-separated tokens, in order, as args, none of them empty.
C22_ParseContract ==
    last.op = "handleSend" =>
        LET text == last.a[1]
            tokens == Tokens(Tail(Trim(text)))
        IN  /\ Parses(text) <=> SlashThenToken(text)
            /\ Parses(text) =>
                   /\ ParseSlashCommand(text).command = ToLowerCase(tokens[1])
                   /\ ParseSlashCommand(text).args = Tail(tokens)
                   /\ \A i \in 1..Len(ParseSlashCommand(text).args) :
                          ParseSlashCommand(text).args[i] # <<>>

\* C22 witness: "/Status arg1" was submitted and parsed to status with the one
\* argument arg1.
C22_Witness ==
    /\ last.op = "handleSend"
    /\ last.a[1] = <<"/", "S", "t", "a", "t", "u", "s", " ", "a", "r", "g", "1">>
    /\ Parses(last.a[1])
    /\ ParseSlashCommand(last.a[1])
           = [command |-> <<"s", "t", "a", "t", "u", "s">>,
              args |-> <<<<"a", "r", "g", "1">>>>]

(* ------------------------------ C23 ---------------------------------- *)
\* the text begins, after leading whitespace, with "/"
BeginsWithSlash(text) == Tokens(text) # <<>> /\ Head(Tokens(text)[1]) = "/"

\* the first token of the text is "/" followed by the name of a command of the
\* table, in any case
NamesCommand(text) ==
    /\ BeginsWithSlash(text)
    /\ \E i \in 1..Len(Commands) :
          Commands[i].name = ToLowerCase(Tail(Tokens(text)[1]))

\* the submission of a text that begins with "/" and names no command
SubmitsUnknown ==
    /\ last'.op = "handleSend"
    /\ BeginsWithSlash(inputValue)
    /\ ~NamesCommand(inputValue)

\* no local handler runs: transcript and tool list are not cleared, the mode
\* is not toggled, the page is not left
NoLocalHandler ==
    /\ IsPrefix(messages, messages')
    /\ UNCHANGED <<activeToolUses, streamingContent, planVars, route>>

\* C23 as stated: every submission of a text that begins with "/" and names no
\* command sends exactly one message event with the text as typed and the
\* current mode, and runs no local handler.
C23_UnknownSentAsMessage ==
    [][SubmitsUnknown =>
          /\ outbound' = Append(outbound, [sock |-> wsRef, type |-> "message",
                                          body |-> <<inputValue, mode>>])
          /\ NoLocalHandler]_vars

\* C23 amended: while the connection is open, every submission of a text that
\* begins with "/" and names no command sends exactly one message event with
\* the text trimmed of surrounding whitespace and the current mode, sends no
\* command event and runs no local handler.
C23_UnknownSentWhileOpen ==
    [][(SubmitsUnknown /\ WsRefOpen) =>
          /\ outbound' = Append(outbound, [sock |-> wsRef, type |-> "message",
                                          body |-> <<Trim(inputValue), mode>>])
          /\ NoLocalHandler]_vars

\* C23 witness: "/nonexistent" was submitted in plan mode on an open
\* connection and went out as a message event.
C23_Witness ==
    /\ last.op = "handleSend"
    /\ last.a = <<<<"/", "n", "o", "n", "e", "x", "i", "s", "t", "e", "n", "t">>,
                  "message", "plan", TRUE>>
    /\ outbound # <<>>
    /\ outbound[Len(outbound)].type = "message"
    /\ outbound[Len(outbound)].body = <<last.a[1], "plan">>

(* ------------------------------ C24 ---------------------------------- *)
\* a command is dispatched by this step: submitted by name or chosen
Dispatches ==
    \/ last'.op = "handleSelectCommand"
    \/ last'.op = "handleSend" /\ NamesCommand(inputValue)

\* the command this step dispatches, and its arguments
Dispatched ==
    IF last'.op = "handleSelectCommand"
    THEN [name |-> last'.a[1], args |-> <<>>]
    ELSE [name |-> ToLowerCase(Tail(Tokens(inputValue)[1])),
          args |-> Tail(Tokens(inputValue))]

LocalNames == {Commands[i].name : i \in {j \in 1..Len(Commands) :
                                           Commands[j].handler = "frontend"}}

\* C24: dispatching help, clear, plan or settings sends no outbound event;
\* dispatching status, files, compact or cost on an open connection sends
\* exactly one command event with the command name and its args.
C24_LocalSendsNothing ==
    [][Dispatches =>
          IF Dispatched.name \in LocalNames
          THEN outbound' = outbound
          ELSE WsRefOpen =>
                 outbound' = Append(outbound, [sock |-> wsRef, type |-> "command",
                                               body |-> <<Dispatched.name,
                                                          Dispatched.args>>])]_vars

(* ------------------------------ C25 ---------------------------------- *)
\* the command's name, or one of its keywords, starts with the lower-cased
\* prefix
MatchesPrefix(cmd, prefix) ==
    \/ IsPrefix(ToLowerCase(prefix), cmd.name)
    \/ \E k \in 1..Len(cmd.keywords) : IsPrefix(ToLowerCase(prefix), cmd.keywords[k])

\* the position of a command in the table
TableIndex(cmd) == CHOOSE i \in 1..Len(Commands) : Commands[i].name = cmd.name

\* C25: for every prefix the menu is opened with, getMatchingCommands returns
\* exactly the commands whose name or a keyword starts with the lower-cased
\* prefix, each once and in table order, and the whole table for the empty
\* prefix.
C25_MatchPrefix ==
    showSlashMenu =>
        LET prefix == GetCommandPrefix(inputValue)
            found == GetMatchingCommands(prefix)
        IN  /\ \A i \in 1..Len(Commands) :
                  (\E j \in 1..Len(found) : found[j] = Commands[i])
                      <=> MatchesPrefix(Commands[i], prefix)
            /\ \A j \in 1..Len(found) : found[j] = Commands[TableIndex(found[j])]
            /\ \A j, k \in 1..Len(found) :
                  j < k => TableIndex(found[j]) < TableIndex(found[k])
            /\ prefix = <<>> => found = Commands

\* C25 witness: "/Co" is typed; the menu lists help (keyword commands),
\* compact, cost and settings (keyword config), in table order.
C25_Witness ==
    /\ showSlashMenu
    /\ inputValue = <<"/", "C", "o">>
    /\ [j \in 1..Len(MatchingCommands) |-> MatchingCommands[j].name]
           = <<<<"h", "e", "l", "p">>, <<"c", "o", "m", "p", "a", "c", "t">>,
               <<"c", "o", "s", "t">>, <<"s", "e", "t", "t", "i", "n", "g", "s">>>>

(* ------------------------------ C26 ---------------------------------- *)
\* the payload kinds that do not parse or carry no recognized type
Unrecognized == {"malformed", "unknown"}

\* C26: handling a payload that does not parse or has an unrecognized type
\* changes neither transcript, streamed text, tracked tool uses, permission
\* queue, grants, typing flag nor connection state; the socket stays as it
\* was, and a response delivered right after it is appended to the transcript.
C26_BadPayloadDropped ==
    [][/\ (last'.op = "onmessage" /\ last'.a[2] \in Unrecognized) =>
              UNCHANGED <<messages, uiVars, permVars, chanVars, outbound>>
       /\ (/\ last.op = "onmessage" /\ last.a[2] \in Unrecognized
           /\ last'.op = "onmessage" /\ last'.a[2] = "response") =>
              messages' = Append(messages, [type |-> "assistant",
                                            content |-> <<"o", "k">>])]_vars

\* C26 witness: a malformed payload was dropped on an open connection that
\* holds a transcript entry; the connection is still open and connected.
C26_Witness ==
    /\ last.op = "onmessage"
    /\ last.a[2] = "malformed"
    /\ messages # <<>>
    /\ WsRefOpen
    /\ wsRef = last.a[1]
    /\ connectionStatus = "connected"

(* ------------------------------ C28 ---------------------------------- *)
\* the transcript entry an inbound event of the given type yields
EntryType ==
    [response |-> "assistant", error |-> "error", command_result |-> "command_result",
     command_error |-> "error", connected |-> "system"]

\* C28: every inbound event and every send either leaves the transcript
\* unchanged or appends one entry, the one for this event, at its end; the
\* entries already there keep their content and order.  Only clearMessages
\* removes entries.
C28_TranscriptAppendOnly ==
    [][/\ last'.op # "clearMessages" =>
              /\ IsPrefix(messages, messages')
              /\ Len(messages') <= Len(messages) + 1
       /\ (last'.op = "onmessage" /\ messages' # messages) =>
              /\ last'.a[2] \in DOMAIN EntryType
              /\ messages'[Len(messages')].type = EntryType[last'.a[2]]
       /\ (last'.op = "sendMessage" /\ messages' # messages) =>
              messages'[Len(messages')] = [type |-> "user",
                                           content |-> Trim(last'.a[1])]]_vars

\* C28 witness: an error event arrived after the user's message; the
\* transcript holds the two entries in that order.
C28_Witness ==
    /\ last.op = "onmessage"
    /\ last.a[2] = "error"
    /\ Len(messages) = 2
    /\ messages[1].type = "user"
    /\ messages[2].type = "error"

(* ------------------------------ C29 ---------------------------------- *)
\* C29: a text_delta event leaves the transcript as it is and appends its
\* fragment to the streamed text; nothing else of the hook's state changes.
C29_TextDeltaNoEntry ==
    [][(last'.op = "onmessage" /\ last'.a[2] = "text_delta") =>
          /\ messages' = messages
          /\ streamingContent' = streamingContent \o <<"o">>
          /\ UNCHANGED <<isTyping, workingDir, activeToolUses, permVars, chanVars,
                         outbound>>]_vars

\* C29 witness: two text_delta events in a row were handled while the
\* transcript held one entry, and it still holds that one entry.
C29_Witness ==
    /\ last.op = "onmessage"
    /\ last.a[2] = "text_delta"
    /\ streamingContent = <<"o", "o">>
    /\ Len(messages) = 1

(* ------------------------------ C27 ---------------------------------- *)
\* C27: a heartbeat tick sends exactly one ping on the current connection if
\* it is open and otherwise nothing, and changes nothing else; while the hook
\* is mounted the tick can fire whatever the connection state, the attempt
\* counter and the pending reconnect timers are; after unmount none fires.
C27_HeartbeatIndependent ==
    [][/\ last'.op = "sendPing" =>
              /\ mounted
              /\ outbound' = IF WsRefOpen
                             THEN Append(outbound, [sock |-> wsRef, type |-> "ping",
                                                    body |-> <<>>])
                             ELSE outbound
              /\ UNCHANGED <<chanVars, messages, uiVars, permVars>>
       /\ (mounted /\ ~MidTask /\ Len(outbound) < MaxOutbound) => ENABLED HeartbeatTick
       /\ ~mounted => ~ENABLED HeartbeatTick]_vars

\* C27 witness: a tick fired while the connection was down, after two failed
\* attempts and with the next reconnect timer pending; nothing was sent.
C27_Witness ==
    /\ last.op = "sendPing"
    /\ last.a = <<FALSE, 2>>
    /\ mounted
    /\ \E i \in 1..Len(timers) : timers[i].kind = "backoff"
    /\ connectionStatus = "disconnected"

(* ------------------------------ C30 ---------------------------------- *)
\* C30: the error event of a connection changes neither the transcript nor
\* the connection status; the close event that follows it sets the status to
\* disconnected.
C30_ErrorNotSurfaced ==
    [][/\ last'.op = "onerror" =>
              /\ messages' = messages
              /\ connectionStatus' = connectionStatus
       /\ (last.op = "onerror" /\ last'.op = "onclose") =>
              connectionStatus' = "disconnected"]_vars

(* ------------------------------ C31 ---------------------------------- *)
\* no two entries of the list carry the same id
UniqueIds(list) ==
    \A i, j \in 1..Len(list) : list[i].id = list[j].id => i = j

\* C31: neither the store's tool uses nor the hook's active tool uses ever
\* hold two entries with the same id.
C31_ToolUseIdsUnique == UniqueIds(toolUses) /\ UniqueIds(activeToolUses)

(* ------------------------------ C32 ---------------------------------- *)
\* C32: when a tool_use event with status error is handled for an id that is
\* tracked, every entry tracked under that id has status error afterwards.
C32_ErrorIsRecorded ==
    [][(/\ last'.op = "onmessage"
        /\ last'.a[2] = "tool_use"
        /\ last'.a[3][3] = "error"
        /\ last'.a[4])
          => \A i \in 1..Len(toolUses') :
                 toolUses'[i].id = last'.a[3][2] => toolUses'[i].status = "error"]_vars

(* ------------------------------ C33 ---------------------------------- *)
\* C33: the close event of a connection that is no longer the current one,
\* a newer connection having taken its place, leaves the attempt counter and
\* the pending timers as they were.
C33_StaleCloseIgnored ==
    [][(last'.op = "onclose" /\ wsRef # NoSocket /\ last'.a[1] # wsRef)
          => UNCHANGED <<reconnectAttempts, timers>>]_vars

(* ------------------------------ C36 ---------------------------------- *)
\* C36: a reconnect timer that fires while the current connection is open
\* leaves that connection open and current.
C36_TimerKeepsOpenConnection ==
    [][(last'.op = "connect" /\ last'.a[1] = "backoff" /\ WsRefOpen)
          => /\ wsRef' = wsRef
             /\ sockets'[wsRef].rs = "OPEN"]_vars

(* ------------------------------ C37 ---------------------------------- *)
\* C37: every connect() targets the current session id, and the connection
\* the channel holds is one to the current session id.
C37_ConnectionsTargetCurrentSession ==
    [][/\ last'.op = "connect" => last'.a[2] = sessionId'
       /\ wsRef' # NoSocket => sockets'[wsRef'].sid = sessionId']_vars

(* ------------------------------ C39 ---------------------------------- *)
\* C39: between tasks the connection status is connected exactly when the
\* current connection is open.
C39_StatusMatchesConnection ==
    ~MidTask => (connectionStatus = "connected" <=> WsRefOpen)

(* ------------------------------ C34 ---------------------------------- *)
\* C34: a permission_request whose tool and path have an applicable stored
\* grant (checkPermission is not null) is not put into the queue.
C34_GrantedNotEnqueued ==
    [][(/\ last'.op = "onmessage"
        /\ last'.a[2] = "permission_request"
        /\ CheckPermission(MapToolName(last'.a[3][3]), last'.a[3][4]) # Null)
          => pendingRequests' = pendingRequests]_vars

(* ------------------------------ C35 ---------------------------------- *)
\* C35: whenever the user's answer removes a request from the queue, exactly
\* one permission_response with the request's id, the allow flag and the
\* scope goes out.
C35_ResolvedIsAnswered ==
    [][(last'.op = "onPermissionRespond" /\ pendingRequests' # pendingRequests)
          => outbound' = Append(outbound,
                 [sock |-> wsRef, type |-> "permission_response",
                  body |-> <<last'.a[1], last'.a[2], last'.a[3]>>])]_vars

(* ------------------------------ C38 ---------------------------------- *)
\* C38: whenever setPlanContent or setPlanSteps replaces the content or the
\* steps of the plan by others, the plan is not approved afterwards.
C38_ApprovalRefersToCurrentPlan ==
    [][(/\ last'.op \in {"setPlanContent", "setPlanSteps"}
        /\ <<planContent', planSteps'>> # <<planContent, planSteps>>)
          => ~planApproved']_vars

(* ------------------------------ C40 ---------------------------------- *)
\* C40: the ids of the transcript entries are pairwise distinct.
C40_EntryIdsDistinct ==
    \A i, j \in 1..Len(messageIds) : messageIds[i] = messageIds[j] => i = j

====
